---------------------------- MODULE Spec2Model ----------------------------
(***************************************************************************)
(* Model of the ScriptExecutor class (the shell-command supervisor) of the *)
(* renderer: runScript, stopScript, clearOutput, the kill timer, the       *)
(* stdout/stderr 'data' handlers and the 'close'/'error' events of the     *)
(* spawned child process.                                                  *)
(*                                                                         *)
(* The renderer is single threaded: every handler runs to completion, and  *)
(* the continuation of the awaited promise in runScript is a microtask     *)
(* that runs right after the handler that settled the promise.  An action  *)
(* therefore is one event-loop callback together with the continuation it  *)
(* triggers.                                                               *)
(***************************************************************************)
EXTENDS Integers, Sequences, FiniteSets, TLC

(***************************************************************************)
(* Bounds of the model.                                                    *)
(***************************************************************************)
\* number of submits that pass the guards of runScript (blocked ones included)
MaxRuns == 2
\* number of 'data' events delivered over the whole behaviour
MaxChunks == 2
\* session tabs created in one behaviour
MaxSessions == 3
\* the last value of the clock Date.now() reads
MaxTime == 4
\* spawns of 'ollama serve' in one behaviour
MaxOllama == 3

(***************************************************************************)
(* Program constants.                                                      *)
(***************************************************************************)
timeoutMs == 30000
maxOutputChars == 50000

(***************************************************************************)
(* Inputs.  A command line is a sequence of characters.                    *)
(***************************************************************************)
ScriptInputs ==
    { <<" ">>,
      <<"l", "s", ";", "S", "u", "D", "o", " ">>,
      <<" ", "s", "u", "d", "o", "k", "u">> }

\* A 'data' chunk is the sequence of the lengths of the pieces that
\* data.split(/\r?\n/) yields: "aa\n" is <<2, 0>>, "\n" is <<0, 0>>.
ChunkData ==
    { <<25000, 0>>,
      <<25000, 0, 25001>> }

\* the code reported by 'close': null after a signal, else the exit status
ExitCodes == {"null", "0", "2"}
\* spawn() returns a child, throws, or returns a child that emits 'error' on
\* the next tick (the shell cannot be executed)
SpawnResults == {"ok", "throws", "error"}
\* what kill('SIGTERM') can do to a live child: the signal is delivered and
\* ends the process, it is delivered and the process ignores or traps it, or
\* it cannot be delivered and the child object emits 'error'
KillResults == {"terminates", "ignored", "error"}
\* toFixed(2) of the elapsed seconds of a run that spawned: the clock is not
\* modelled, the value is left symbolic
Durations == {"elapsed"}

Runs == 1..MaxRuns

\* the child <div class="output-placeholder"> of scriptOutput
Placeholder == 0
\* stopRequested of a run that stopScript has not signalled
NoStop == [requested |-> FALSE, div |-> <<>>]

VARIABLES
    isRunning,       \* this.isRunning
    currentProcess,  \* this.currentProcess: 0 is null, else the run whose child it is
    killTimer,       \* this.killTimer: 0 is null, else the run whose timer handle it is
    wasStopped,      \* this.wasStopped
    timedOut,        \* this.timedOut
    commandHistory,  \* this.commandHistory
    scriptOutput,    \* children of this.scriptOutput: Placeholder or the blocks of runs
    outputDiv,       \* per run: the children of the run's outputDiv
    outputChars,     \* per run: the local outputChars of the runScript call
    run,             \* per run: the script and the position of the runScript call
    proc,            \* per run: the state of the child process
    termPending,     \* per run: a delivered SIGTERM is going to end the child
    timer,           \* per run: the state of the timeout set by setTimeout
    nRuns,           \* number of runScript calls that passed the guards
    nChunks,         \* number of 'data' events delivered
    arrived,         \* per run: the numbers of the 'data' events of its child, in order
    stopRequested,   \* per run: whether stopScript signalled it, and its outputDiv then
    lastEvent,       \* the callback that ran last, and what it did
    question,        \* chat: the content of the user message before a reply
    locationData,    \* chat: locationData of renderMessages for that reply
    mapTarget,       \* chat: where the map button has navigated the map
    sessions,          \* this.sessions: the entries of the Map, in insertion order
    currentSessionId,  \* this.currentSessionId
    nextSessionNumber, \* this.nextSessionNumber
    tabs,              \* the session tabs of the tab bar: the id each was made for
    creating,          \* ids of createNewSessionTab calls waiting for the prompt file
    now,               \* the value of Date.now()
    staleCall,         \* a tab handler has been called with an id that is not a key
    sessionEvent,      \* the session handler that ran last, and what it did
    ollamaProcess,      \* this.ollamaProcess: 0 is null, else the child it refers to
    ollamaIsExternal,   \* this.ollamaIsExternal
    startDisabled,      \* startOllamaBtn.disabled
    stopDisabled,       \* stopOllamaBtn.disabled
    pointerEvents,      \* ollamaServiceContent.style.pointerEvents
    ollamaServiceStatus,\* ollamaServiceStatusEl.textContent
    child,              \* per spawn of 'ollama serve': the state of the process
    signalled,          \* per spawn: process.kill has delivered SIGTERM to it
    nOllama,            \* number of spawn calls
    ollamaEvent         \* the Ollama handler that ran last, and what it did

\* the variables of the executor and those of the chat
execVars == << isRunning, currentProcess, killTimer, wasStopped, timedOut,
               commandHistory, scriptOutput, outputDiv, outputChars, run, proc,
               termPending, timer, nRuns, nChunks, arrived, stopRequested,
               lastEvent >>
chatVars == << question, locationData, mapTarget >>
\* the variables of the session tabs and those of the Ollama service control
sessVars == << sessions, currentSessionId, nextSessionNumber, tabs, creating,
               now, staleCall, sessionEvent >>
ollamaVars == << ollamaProcess, ollamaIsExternal, startDisabled, stopDisabled,
                 pointerEvents, ollamaServiceStatus, child, signalled, nOllama,
                 ollamaEvent >>
appVars == << sessVars, ollamaVars >>

vars == << execVars, chatVars, appVars >>

(***************************************************************************)
(* String helpers: trim() and the test of /\bsudo\b/i.                     *)
(***************************************************************************)
IsSpace(c) == c = " "

RECURSIVE TrimStart(_)
TrimStart(s) ==
    IF s # <<>> /\ IsSpace(Head(s)) THEN TrimStart(Tail(s)) ELSE s

RECURSIVE TrimEnd(_)
TrimEnd(s) ==
    IF s # <<>> /\ IsSpace(s[Len(s)]) THEN TrimEnd(SubSeq(s, 1, Len(s) - 1)) ELSE s

Trim(s) == TrimEnd(TrimStart(s))

\* \w of the characters used in ScriptInputs
IsWordChar(c) == c \in {"s", "u", "d", "o", "S", "U", "D", "O", "k", "l", "_"}

\* canonicalisation of the /i flag
Fold(c) ==
    CASE c = "S" -> "s"
      [] c = "U" -> "u"
      [] c = "D" -> "d"
      [] c = "O" -> "o"
      [] OTHER -> c

\* \b at the gap before position p (1..Len(s)+1)
WordBoundary(s, p) ==
    LET before == p > 1 /\ IsWordChar(s[p - 1])
        after  == p <= Len(s) /\ IsWordChar(s[p])
    IN  before # after

\* the test without the /i flag
SudoTestCaseSensitive(s) ==
    \E i \in 1..(Len(s) - 3) :
        /\ WordBoundary(s, i)
        /\ s[i] = "s" /\ s[i + 1] = "u" /\ s[i + 2] = "d" /\ s[i + 3] = "o"
        /\ WordBoundary(s, i + 4)

\* /\bsudo\b/i.test(script)
SudoTest(s) ==
    \E i \in 1..(Len(s) - 3) :
        /\ WordBoundary(s, i)
        /\ Fold(s[i]) = "s" /\ Fold(s[i + 1]) = "u"
        /\ Fold(s[i + 2]) = "d" /\ Fold(s[i + 3]) = "o"
        /\ WordBoundary(s, i + 4)

(***************************************************************************)
(* Output blocks.                                                          *)
(***************************************************************************)
Line(cls, text, chunk, piece, len) ==
    [cls |-> cls, text |-> text, chunk |-> chunk, piece |-> piece, len |-> len]

RECURSIVE SumSeq(_)
SumSeq(q) == IF q = <<>> THEN 0 ELSE Head(q) + SumSeq(Tail(q))

\* appendLines: one div per non-empty piece, tagged with the chunk it came
\* from (k) and its place in the chunk; returns the characters added
RECURSIVE AppendedLines(_, _, _, _)
AppendedLines(data, cls, k, i) ==
    IF i > Len(data) THEN <<>>
    ELSE IF data[i] = 0 THEN AppendedLines(data, cls, k, i + 1)
    ELSE <<Line(cls, "data", k, i, data[i])>> \o AppendedLines(data, cls, k, i + 1)

appendLines(container, data, cls, k) ==
    [ div   |-> container \o AppendedLines(data, cls, k, 1),
      added |-> SumSeq(data) ]

appendMessage(container, text, cls) == Append(container, Line(cls, text, 0, 0, 0))

Event(op, r, arg, script) == [op |-> op, run |-> r, arg |-> arg, script |-> script]

(***************************************************************************)
(* The user messages: a decimal pair with a lead-in, a separator and a     *)
(* trailer, and questions about places.                                    *)
(***************************************************************************)
LeadIns ==
    { <<>>,
      <<"C", "o", "o", "r", "d", "i", "n", "a", "t", "e", "s", " ">>,
      <<"l", "a", "t", " ">>,
      <<"W", "h", "e", "r", "e", " ", "i", "s", " ">> }
FirstNumbers ==
    { <<"5", "1", ".", "5", "0", "7", "4">>,
      <<"-", "3", "3", ".", "8">>,
      <<"9", "5", ".", "0">> }
Separators ==
    { <<",", " ">>,
      <<" ">>,
      <<" ", "S", ",", " ">>,
      <<" ", "l", "o", "n", " ">> }
SecondNumbers ==
    { <<"-", "0", ".", "1", "2", "7", "8">>,
      <<"0", ".", "1", "2", "7", "8">>,
      <<"1", "5", "1", ".", "2">> }
Trailers ==
    { <<>>,
      <<" ", "W">> }
PlaceQuestions ==
    { <<"C", "i", "t", "y", " ", "R", "o", "m", "e">>,
      <<"W", "h", "a", "t", " ", "i", "s", " ", "t", "h", "e", " ", "l", "o", "c", "a", "t", "i", "o", "n", " ", "o", "f", " ", "T", "o", "k", "y", "o", "?">>,
      <<"W", "h", "e", "r", "e", " ", "i", "s", " ", "R", "o", "m", "e", "?">>,
      <<"R", "i", "v", "e", "r", " ", "O", "d", "r", "a">>,
      <<"W", "h", "a", "t", " ", "t", "o", " ", "s", "e", "e", " ", "i", "n", " ", "I", "s", "e", ",", "J", "a", "p", "a", "n", "?">>,
      <<"t", "e", "l", "l", " ", "m", "e", " ", "a", "b", "o", "u", "t", " ", "R", "o", "m", "e">>,
      <<"t", "e", "l", "l", " ", "m", "e", " ", "a", "b", "o", "u", "t", " ", "c", "a", "t", "s">>,
      <<"W", "h", "a", "t", " ", "i", "s", " ", "T", "o", "k", "y", "o", " ", "l", "o", "c", "a", "t", "i", "o", "n", "?">>,
      <<"W", "h", "a", "t", " ", "i", "s", " ", "w", "o", "r", "t", "h", " ", "t", "o", " ", "s", "e", "e", " ", "i", "n", " ", "R", "o", "m", "e", "?">>,
      <<"W", "h", "a", "t", " ", "c", "a", "n", " ", "I", " ", "d", "o", " ", "i", "n", " ", "R", "o", "m", "e", "?">>,
      <<"h", "e", "l", "l", "o">> }

Questions ==
    { p \o a \o sep \o b \o t :
        p \in LeadIns, a \in FirstNumbers, sep \in Separators,
        b \in SecondNumbers, t \in Trailers }
        \cup PlaceQuestions

(***************************************************************************)
(* Chat: the map button of an assistant reply.  renderMessages calls       *)
(* extractLocationFromQuestion on the user message before the reply and    *)
(* the button navigates the map to what it returned.  A message is a       *)
(* sequence of characters.                                                 *)
(***************************************************************************)
Digits == <<"0", "1", "2", "3", "4", "5", "6", "7", "8", "9">>
UpperLetters == <<"A", "B", "C", "D", "E", "F", "G", "H", "I", "J", "K", "L", "M",
                  "N", "O", "P", "Q", "R", "S", "T", "U", "V", "W", "X", "Y", "Z">>
LowerLetters == <<"a", "b", "c", "d", "e", "f", "g", "h", "i", "j", "k", "l", "m",
                  "n", "o", "p", "q", "r", "s", "t", "u", "v", "w", "x", "y", "z">>

Range(q) == {q[i] : i \in 1..Len(q)}

\* \d, \s and . of the characters used in Questions (no line terminator
\* is); "deg" stands for the degree sign
DigitChars == Range(Digits)
SpaceChars == {" "}
AnyChar ==
    DigitChars \cup SpaceChars \cup Range(UpperLetters) \cup Range(LowerLetters)
        \cup {".", "-", ",", ";", ":", "=", "(", ")", "?", "deg"}

\* the canonical form of a character under the /i flag
ToLower(c) ==
    IF c \in Range(UpperLetters)
    THEN LowerLetters[CHOOSE i \in 1..Len(UpperLetters) : UpperLetters[i] = c]
    ELSE c

\* a character class given in one case, under the /i flag
BothCases(set) ==
    set \cup {ToLower(c) : c \in set}
        \cup {UpperLetters[i] : i \in {j \in 1..Len(LowerLetters) : LowerLetters[j] \in set}}

(***************************************************************************)
(* Regular expressions.  A pattern is a sequence of items: a quantified    *)
(* character class, a literal (compared without case: every literal of the *)
(* source is in a pattern with the /i flag), an alternation of patterns in *)
(* the order of the source, the start and the end of a capturing group,    *)
(* ^ and $.  The match is the one a backtracking matcher finds first:      *)
(* leftmost start, alternatives in order, greedy quantifiers longest       *)
(* first, lazy ones shortest first.                                        *)
(***************************************************************************)
Item(kind, set, lo, many, lazy, word, alts, g) ==
    [kind |-> kind, set |-> set, lo |-> lo, many |-> many, lazy |-> lazy,
     word |-> word, alts |-> alts, g |-> g]

One(set)      == Item("cls", set, 1, FALSE, FALSE, <<>>, <<>>, 0)
Opt(set)      == Item("cls", set, 0, FALSE, FALSE, <<>>, <<>>, 0)
Star(set)     == Item("cls", set, 0, TRUE, FALSE, <<>>, <<>>, 0)
Plus(set)     == Item("cls", set, 1, TRUE, FALSE, <<>>, <<>>, 0)
LazyStar(set) == Item("cls", set, 0, TRUE, TRUE, <<>>, <<>>, 0)
LazyPlus(set) == Item("cls", set, 1, TRUE, TRUE, <<>>, <<>>, 0)
Lit(word)     == Item("lit", {}, 0, FALSE, FALSE, word, <<>>, 0)
Alt(alts)     == Item("alt", {}, 0, FALSE, FALSE, <<>>, alts, 0)
Open(g)       == Item("open", {}, 0, FALSE, FALSE, <<>>, <<>>, g)
Close(g)      == Item("close", {}, 0, FALSE, FALSE, <<>>, <<>>, g)
Bol           == Item("bol", {}, 0, FALSE, FALSE, <<>>, <<>>, 0)
Eol           == Item("eol", {}, 0, FALSE, FALSE, <<>>, <<>>, 0)

\* (?: ... )?
Maybe(re) == Alt(<<re, <<>>>>)

\* no group has taken part in the match
NoCaps == [g \in 1..4 |-> <<0, 0>>]

\* the number of characters from pos on that are in the class
RECURSIVE RunLen(_, _, _)
RunLen(set, s, pos) ==
    IF pos <= Len(s) /\ s[pos] \in set THEN 1 + RunLen(set, s, pos + 1) ELSE 0

LitAt(word, s, pos) ==
    /\ pos + Len(word) - 1 <= Len(s)
    /\ \A i \in 1..Len(word) : ToLower(s[pos + i - 1]) = ToLower(word[i])

\* the first match of re at pos: <<>> if there is none, else one record
\* with the position after the match and the groups
RECURSIVE MatchAt(_, _, _, _)
RECURSIVE TryCounts(_, _, _, _, _, _, _)
RECURSIVE TryAlts(_, _, _, _, _, _)

MatchAt(re, s, pos, caps) ==
    IF Len(re) = 0 THEN <<[end |-> pos, caps |-> caps]>>
    ELSE LET it == Head(re)
             rest == Tail(re)
         IN  CASE it.kind = "lit" ->
                    IF LitAt(it.word, s, pos)
                    THEN MatchAt(rest, s, pos + Len(it.word), caps)
                    ELSE <<>>
               [] it.kind = "open" ->
                    MatchAt(rest, s, pos, [caps EXCEPT ![it.g] = <<pos, pos>>])
               [] it.kind = "close" ->
                    MatchAt(rest, s, pos, [caps EXCEPT ![it.g] = <<@[1], pos>>])
               [] it.kind = "bol" ->
                    IF pos = 1 THEN MatchAt(rest, s, pos, caps) ELSE <<>>
               [] it.kind = "eol" ->
                    IF pos = Len(s) + 1 THEN MatchAt(rest, s, pos, caps) ELSE <<>>
               [] it.kind = "alt" ->
                    TryAlts(it.alts, 1, rest, s, pos, caps)
               [] OTHER ->
                    LET avail == RunLen(it.set, s, pos)
                        hi == IF it.many THEN avail ELSE IF avail > 0 THEN 1 ELSE 0
                    IN  IF hi < it.lo THEN <<>>
                        ELSE IF hi = it.lo THEN MatchAt(rest, s, pos + hi, caps)
                        ELSE IF it.lazy
                        THEN TryCounts(rest, s, pos, caps, it.lo, hi, 1)
                        ELSE TryCounts(rest, s, pos, caps, hi, it.lo, -1)

\* the class taken n times, then n + step times, ... up to last times
TryCounts(rest, s, pos, caps, n, last, step) ==
    LET m == MatchAt(rest, s, pos + n, caps)
    IN  IF Len(m) > 0 THEN m
        ELSE IF n = last THEN <<>>
        ELSE TryCounts(rest, s, pos, caps, n + step, last, step)

TryAlts(alts, i, rest, s, pos, caps) ==
    IF i > Len(alts) THEN <<>>
    ELSE LET m == MatchAt(alts[i] \o rest, s, pos, caps)
         IN  IF Len(m) > 0 THEN m
             ELSE TryAlts(alts, i + 1, rest, s, pos, caps)

\* pattern.exec(s) with lastIndex 0, s.match(pattern), pattern.test(s): the
\* match at the leftmost position that has one
Exec(re, s) ==
    LET starts == {i \in 1..(Len(s) + 1) : Len(MatchAt(re, s, i, NoCaps)) > 0}
    IN  IF starts = {} THEN <<>>
        ELSE MatchAt(re, s, CHOOSE i \in starts : \A j \in starts : i <= j, NoCaps)

\* match[g]: whether the group took part, and its text
Defined(m, g) == m[1].caps[g][1] # 0
Group(s, m, g) == SubSeq(s, m[1].caps[g][1], m[1].caps[g][2] - 1)

(***************************************************************************)
(* The patterns of extractLocationFromQuestion.                            *)
(***************************************************************************)
\* (-?\d+\.\d+) as group g
Decimal(g) ==
    <<Open(g), Opt({"-"}), Plus(DigitChars), One({"."}), Plus(DigitChars), Close(g)>>

\* (?:\?|$)
EndOfQuestion == Alt(<< <<One({"?"})>>, <<Eol>> >>)

\* \s+ and \s*
Sp1 == Plus(SpaceChars)
Sp0 == Star(SpaceChars)

\* (.+?) as group 1
LazyText == <<Open(1), LazyPlus(AnyChar), Close(1)>>

\* the decimal pair with optional hemisphere letters, 4 groups
CoordPattern1 ==
    Decimal(1)
        \o <<Sp0, Opt({",", "deg"}), Sp0, Opt({"-"}), Sp0,
             Maybe(<<Open(2), One(BothCases({"N", "S"})), Close(2)>>),
             Sp0, Opt({",", ";"}), Sp0>>
        \o Decimal(3)
        \o <<Sp0, Opt({",", "deg"}), Sp0, Opt({"-"}), Sp0,
             Maybe(<<Open(4), One(BothCases({"E", "W"})), Close(4)>>)>>

\* lat ... lon ..., 2 groups
CoordPattern2 ==
    <<Alt(<< <<Lit(<<"l", "a", "t">>), Maybe(<<Lit(<<"i", "t", "u", "d", "e">>)>>)>>,
             <<Lit(<<"c", "o", "o", "r", "d">>), Opt(BothCases({"s"}))>> >>),
      Sp0, Opt({":", "="}), Sp0>>
        \o Decimal(1)
        \o <<LazyStar(AnyChar),
             Alt(<< <<Lit(<<"l", "o", "n">>), Maybe(<<Lit(<<"g", "i", "t", "u", "d", "e">>)>>)>>,
                    <<Lit(<<"l", "n", "g">>)>> >>),
             Sp0, Opt({":", "="}), Sp0>>
        \o Decimal(2)

\* coordinates (a, b), 2 groups
CoordPattern3 ==
    <<Alt(<< <<Lit(<<"c", "o", "o", "r", "d", "i", "n", "a", "t", "e">>), Opt(BothCases({"s"}))>>,
             <<Lit(<<"c", "o", "o", "r", "d">>), Opt(BothCases({"s"}))>> >>),
      Sp0, Opt({":", "="}), Sp0, Opt({"("}), Sp0>>
        \o Decimal(1)
        \o <<Sp0, One({",", ";"}), Sp0>>
        \o Decimal(2)
        \o <<Sp0, Opt({")"})>>

\* the patterns in the order of the array, each with match.length
coordPatterns ==
    << [re |-> CoordPattern1, length |-> 5],
       [re |-> CoordPattern2, length |-> 3],
       [re |-> CoordPattern3, length |-> 3] >>

\* Rule 2: what is (the) location of X
LocationOfPattern ==
    <<Lit(<<"w", "h", "a", "t">>), Sp1, Lit(<<"i", "s">>), Sp1, Maybe(<<Lit(<<"t", "h", "e">>), Sp1>>), Lit(<<"l", "o", "c", "a", "t", "i", "o", "n">>), Sp1, Lit(<<"o", "f">>), Sp1>>
        \o LazyText \o <<EndOfQuestion>>

\* Rule 2: what is X location
XLocationPattern ==
    <<Lit(<<"w", "h", "a", "t">>), Sp1, Lit(<<"i", "s">>), Sp1>> \o LazyText \o <<Sp1, Lit(<<"l", "o", "c", "a", "t", "i", "o", "n">>), EndOfQuestion>>

\* Rule 3: where is X
WhereIsPattern ==
    <<Lit(<<"w", "h", "e", "r", "e">>), Sp1, Lit(<<"i", "s">>), Sp1>> \o LazyText \o <<EndOfQuestion>>

\* Rule 4: what (can I) (to) do|see|visit|explore in X
WhatToDoPattern ==
    <<Lit(<<"w", "h", "a", "t">>), Sp1, Maybe(<<Lit(<<"c", "a", "n">>), Sp1, Lit(<<"i">>), Sp1>>), Maybe(<<Lit(<<"t", "o">>), Sp1>>),
      Alt(<< <<Lit(<<"d", "o">>)>>, <<Lit(<<"s", "e", "e">>)>>, <<Lit(<<"v", "i", "s", "i", "t">>)>>, <<Lit(<<"e", "x", "p", "l", "o", "r", "e">>)>> >>),
      Sp1, Lit(<<"i", "n">>), Sp1>>
        \o LazyText \o <<EndOfQuestion>>

\* Rule 4: what is worth to see in X
WorthToSeePattern ==
    <<Lit(<<"w", "h", "a", "t">>), Sp1, Lit(<<"i", "s">>), Sp1, Lit(<<"w", "o", "r", "t", "h">>), Sp1, Lit(<<"t", "o">>), Sp1, Lit(<<"s", "e", "e">>), Sp1, Lit(<<"i", "n">>), Sp1>>
        \o LazyText \o <<EndOfQuestion>>

\* Rule 5: tell me about X
TellMeAboutPattern ==
    <<Lit(<<"t", "e", "l", "l">>), Sp1, Lit(<<"m", "e">>), Sp1, Lit(<<"a", "b", "o", "u", "t">>), Sp1>> \o LazyText \o <<EndOfQuestion>>

\* Rule 5: the text names a kind of place
PlaceKindPattern ==
    <<Alt(<< <<Lit(<<"c", "i", "t", "y">>)>>, <<Lit(<<"t", "o", "w", "n">>)>>, <<Lit(<<"v", "i", "l", "l", "a", "g", "e">>)>>, <<Lit(<<"c", "o", "u", "n", "t", "r", "y">>)>> >>),
      Opt({","}), Sp0>>

\* Rule 5: the text is a capitalised word, or two with a comma (no /i flag;
\* the letters of Questions are A-Z and a-z)
CapitalisedPattern ==
    <<Bol, One(Range(UpperLetters)), Plus(Range(LowerLetters)),
      Maybe(<<One({","}), Sp1, One(Range(UpperLetters)), Plus(Range(LowerLetters))>>),
      Eol>>

\* Rule 6: a kind of place, then its name
SimpleFormatPattern ==
    <<Bol,
      Alt(<< <<Lit(<<"c", "i", "t", "y">>)>>,
             <<Lit(<<"t", "o", "w", "n">>)>>,
             <<Lit(<<"v", "i", "l", "l", "a", "g", "e">>)>>,
             <<Lit(<<"r", "e", "g", "i", "o", "n">>)>>,
             <<Lit(<<"c", "o", "u", "n", "t", "r", "y">>)>>,
             <<Lit(<<"s", "t", "a", "t", "e">>)>>,
             <<Lit(<<"p", "r", "o", "v", "i", "n", "c", "e">>)>>,
             <<Lit(<<"i", "s", "l", "a", "n", "d">>)>>,
             <<Lit(<<"m", "o", "u", "n", "t", "a", "i", "n">>)>>,
             <<Lit(<<"m", "o", "u", "n", "t">>)>>,
             <<Lit(<<"m", "t">>)>>,
             <<Lit(<<"v", "o", "l", "c", "a", "n", "o">>)>>,
             <<Lit(<<"l", "a", "k", "e">>)>>,
             <<Lit(<<"r", "i", "v", "e", "r">>)>>,
             <<Lit(<<"o", "c", "e", "a", "n">>)>>,
             <<Lit(<<"s", "e", "a">>)>>,
             <<Lit(<<"b", "a", "y">>)>>,
             <<Lit(<<"p", "e", "n", "i", "n", "s", "u", "l", "a">>)>>,
             <<Lit(<<"d", "e", "s", "e", "r", "t">>)>>,
             <<Lit(<<"f", "o", "r", "e", "s", "t">>)>>,
             <<Lit(<<"v", "a", "l", "l", "e", "y">>)>>,
             <<Lit(<<"c", "a", "n", "y", "o", "n">>)>>,
             <<Lit(<<"p", "a", "r", "k">>)>>,
             <<Lit(<<"t", "r", "a", "i", "l">>)>>,
             <<Lit(<<"b", "e", "a", "c", "h">>)>>,
             <<Lit(<<"h", "a", "r", "b", "o", "r">>)>>,
             <<Lit(<<"p", "o", "r", "t">>)>>,
             <<Lit(<<"a", "i", "r", "p", "o", "r", "t">>)>>,
             <<Lit(<<"c", "o", "o", "r", "d", "i", "n", "a", "t", "e">>), Opt(BothCases({"s"}))>> >>),
      Sp1, Alt(<< <<Lit(<<"f", "o", "r">>), Sp1>>, <<Lit(<<"o", "f">>), Sp1>>, <<>> >>)>>
        \o LazyText \o <<EndOfQuestion>>

(***************************************************************************)
(* Numbers: the value of a text of the form -?\d+\.\d+ is kept as sign,    *)
(* integer part and fraction digits without trailing zeros.                *)
(***************************************************************************)
DigitValue(c) == (CHOOSE i \in 1..Len(Digits) : Digits[i] = c) - 1

RECURSIVE DecimalValue(_)
DecimalValue(t) ==
    IF t = <<>> THEN 0
    ELSE 10 * DecimalValue(SubSeq(t, 1, Len(t) - 1)) + DigitValue(t[Len(t)])

RECURSIVE StripZeros(_)
StripZeros(t) ==
    IF t # <<>> /\ t[Len(t)] = "0" THEN StripZeros(SubSeq(t, 1, Len(t) - 1)) ELSE t

parseFloat(t) ==
    LET neg == t[1] = "-"
        body == IF neg THEN Tail(t) ELSE t
        dot == CHOOSE i \in 1..Len(body) : body[i] = "."
    IN  [neg |-> neg,
         int |-> DecimalValue(SubSeq(body, 1, dot - 1)),
         frac |-> StripZeros(SubSeq(body, dot + 1, Len(body)))]

\* v * (flip ? -1 : 1)
Times(v, flip) == IF flip THEN [v EXCEPT !.neg = ~@] ELSE v

\* v >= -max && v <= max
WithinRange(v, max) == v.int < max \/ (v.int = max /\ v.frac = <<>>)

maxLatitude == 90
maxLongitude == 180

NoNumber == [neg |-> FALSE, int |-> 0, frac |-> <<>>]

Location(type, lat, lon, placeName) ==
    [type |-> type, lat |-> lat, lon |-> lon, placeName |-> placeName]

\* the return value null
NoLocation == Location("null", NoNumber, NoNumber, <<>>)
\* renderMessages has not run
NotRendered == Location("pending", NoNumber, NoNumber, <<>>)
\* the map has not been navigated
NoTarget == Location("none", NoNumber, NoNumber, <<>>)

Place(s, m) == Location("place", NoNumber, NoNumber, Trim(Group(s, m, 1)))

\* lat and lon of one match of a coordinate pattern
CoordsOf(s, m, length) ==
    IF length >= 5
    THEN [lat |-> Times(parseFloat(Group(s, m, 1)),
                        Defined(m, 2) /\ Group(s, m, 2) = <<"S">>),
          lon |-> Times(parseFloat(Group(s, m, 3)),
                        Defined(m, 4) /\ Group(s, m, 4) = <<"W">>)]
    ELSE [lat |-> parseFloat(Group(s, m, 1)),
          lon |-> parseFloat(Group(s, m, 2))]

\* the loop over coordPatterns from pattern i on: <<>> if no pattern gives
\* coordinates in range
RECURSIVE CoordinatesFrom(_, _)
CoordinatesFrom(s, i) ==
    IF i > Len(coordPatterns) THEN <<>>
    ELSE LET m == Exec(coordPatterns[i].re, s)
         IN  IF Len(m) > 0
                /\ WithinRange(CoordsOf(s, m, coordPatterns[i].length).lat, maxLatitude)
                /\ WithinRange(CoordsOf(s, m, coordPatterns[i].length).lon, maxLongitude)
             THEN <<CoordsOf(s, m, coordPatterns[i].length)>>
             ELSE CoordinatesFrom(s, i + 1)

\* Rule 5 returns a place
TellMeAboutPlace(s) ==
    LET m == Exec(TellMeAboutPattern, s)
    IN  /\ Len(m) > 0
        /\ \/ Len(Exec(PlaceKindPattern, Trim(Group(s, m, 1)))) > 0
           \/ Len(Exec(CapitalisedPattern, Trim(Group(s, m, 1)))) > 0

extractLocationFromQuestion(s) ==
    LET c == CoordinatesFrom(s, 1)
    IN  IF Len(c) > 0 THEN Location("coordinates", c[1].lat, c[1].lon, <<>>)
        ELSE IF Len(Exec(LocationOfPattern, s)) > 0 THEN Place(s, Exec(LocationOfPattern, s))
        ELSE IF Len(Exec(XLocationPattern, s)) > 0 THEN Place(s, Exec(XLocationPattern, s))
        ELSE IF Len(Exec(WhereIsPattern, s)) > 0 THEN Place(s, Exec(WhereIsPattern, s))
        ELSE IF Len(Exec(WhatToDoPattern, s)) > 0 THEN Place(s, Exec(WhatToDoPattern, s))
        ELSE IF Len(Exec(WorthToSeePattern, s)) > 0 THEN Place(s, Exec(WorthToSeePattern, s))
        ELSE IF TellMeAboutPlace(s) THEN Place(s, Exec(TellMeAboutPattern, s))
        ELSE IF Len(Exec(SimpleFormatPattern, s)) > 0 THEN Place(s, Exec(SimpleFormatPattern, s))
        ELSE NoLocation

(***************************************************************************)
(* Initial state: the executor after its constructor, and a chat with no   *)
(* message.                                                                *)
(***************************************************************************)
InitExecutor ==
    /\ isRunning = FALSE
    /\ currentProcess = 0
    /\ killTimer = 0
    /\ wasStopped = FALSE
    /\ timedOut = FALSE
    /\ commandHistory = <<>>
    /\ scriptOutput = <<Placeholder>>
    /\ outputDiv = [r \in Runs |-> <<>>]
    /\ outputChars = [r \in Runs |-> 0]
    /\ run = [r \in Runs |-> [script |-> <<>>, pc |-> "none"]]
    /\ proc = [r \in Runs |-> "none"]
    /\ termPending = [r \in Runs |-> FALSE]
    /\ timer = [r \in Runs |-> "none"]
    /\ nRuns = 0
    /\ nChunks = 0
    /\ arrived = [r \in Runs |-> <<>>]
    /\ stopRequested = [r \in Runs |-> NoStop]
    /\ lastEvent = Event("init", 0, "none", <<>>)

\* the chat with no message rendered
NoChat ==
    /\ question = <<>>
    /\ locationData = NotRendered
    /\ mapTarget = NoTarget

\* undefined: what Array.from(keys)[0] of an empty Map gives
Undefined == 0
NoSessionEvent == [op |-> "init", id |-> Undefined, refused |-> FALSE]

\* the session fields as their initialisers leave them
NoSessions ==
    /\ sessions = <<>>
    /\ currentSessionId = 1
    /\ nextSessionNumber = 1
    /\ tabs = <<>>
    /\ creating = <<>>
    /\ now = 2
    /\ staleCall = FALSE
    /\ sessionEvent = NoSessionEvent

Children == 1..MaxOllama
NoOllamaEvent == [op |-> "init", child |-> 0, arg |-> "none"]

\* the Ollama fields as their initialisers leave them, the buttons enabled
NoOllama ==
    /\ ollamaProcess = 0
    /\ ollamaIsExternal = FALSE
    /\ startDisabled = FALSE
    /\ stopDisabled = FALSE
    /\ pointerEvents = "auto"
    /\ ollamaServiceStatus = "stopped"
    /\ child = [p \in Children |-> "none"]
    /\ signalled = [p \in Children |-> FALSE]
    /\ nOllama = 0
    /\ ollamaEvent = NoOllamaEvent

Init ==
    /\ InitExecutor
    /\ NoChat
    /\ NoSessions
    /\ NoOllama

(***************************************************************************)
(* The rest of runScript after the await: the terminal message, catch and  *)
(* finally.  ws, to, od and tm are wasStopped, timedOut, outputDiv and     *)
(* timer as the handler that settled the promise left them.                *)
(***************************************************************************)
\* `Error: exited with code ${result.code}`
ExitedWithCode(code) ==
    CASE code = "2" -> "Error: exited with code 2"
      [] OTHER -> "Error: exited with code"

\* the stop test placed before the timeout test
TerminalLineStopFirst(kind, code, ws, to) ==
    IF kind = "error" THEN Line("output-error", "Error: message", 0, 0, 0)
    ELSE IF ws THEN Line("output-error", "Execution stopped by user", 0, 0, 0)
    ELSE IF to THEN Line("output-error", "Timed out", 0, 0, 0)
    ELSE IF code = "0" \/ code = "null"
         THEN Line("output-success", "Completed successfully", 0, 0, 0)
    ELSE Line("output-error", ExitedWithCode(code), 0, 0, 0)

\* success for code 0 only
TerminalLineNullFails(kind, code, ws, to) ==
    IF kind = "error" THEN Line("output-error", "Error: message", 0, 0, 0)
    ELSE IF to THEN Line("output-error", "Timed out", 0, 0, 0)
    ELSE IF ws THEN Line("output-error", "Execution stopped by user", 0, 0, 0)
    ELSE IF code = "0"
         THEN Line("output-success", "Completed successfully", 0, 0, 0)
    ELSE Line("output-error", ExitedWithCode(code), 0, 0, 0)

\* the catch block reporting by the flags, as the try block does
TerminalLineFlagsFirst(kind, code, ws, to) ==
    IF to THEN Line("output-error", "Timed out", 0, 0, 0)
    ELSE IF ws THEN Line("output-error", "Execution stopped by user", 0, 0, 0)
    ELSE IF kind = "error" THEN Line("output-error", "Error: message", 0, 0, 0)
    ELSE IF code = "0" \/ code = "null"
         THEN Line("output-success", "Completed successfully", 0, 0, 0)
    ELSE Line("output-error", ExitedWithCode(code), 0, 0, 0)

\* the message of the try block after the await, or of the catch block
TerminalLine(kind, code, ws, to) ==
    IF kind = "error" THEN Line("output-error", "Error: message", 0, 0, 0)
    ELSE IF to THEN Line("output-error", "Timed out", 0, 0, 0)
    ELSE IF ws THEN Line("output-error", "Execution stopped by user", 0, 0, 0)
    ELSE IF code = "0" \/ code = "null"
         THEN Line("output-success", "Completed successfully", 0, 0, 0)
    ELSE Line("output-error", ExitedWithCode(code), 0, 0, 0)

TerminalIsError(kind, code, ws, to) ==
    \/ kind = "error"
    \/ to
    \/ ws
    \/ ~(code = "0" \/ code = "null")

\* the timeout left pending
clearKillTimerKeepsTimeout(tm) == tm

\* clearKillTimer
clearKillTimer(tm) ==
    IF killTimer # 0
    THEN [tm EXCEPT ![killTimer] = IF @ = "armed" THEN "cleared" ELSE @]
    ELSE tm

\* the finally block without the push to commandHistory
FinishNoHistory(r, kind, code, ws, to, od, tm, dur) ==
    LET div == Append(od[r], TerminalLine(kind, code, ws, to))
    IN  /\ outputDiv' = [od EXCEPT ![r] = div]
        /\ timer' = clearKillTimer(tm)
        /\ killTimer' = 0
        /\ commandHistory' = commandHistory
        /\ isRunning' = FALSE
        /\ currentProcess' = 0
        /\ run' = [run EXCEPT ![r].pc = "done"]
        /\ wasStopped' = ws
        /\ timedOut' = to

Finish(r, kind, code, ws, to, od, tm, dur) ==
    LET div == Append(od[r], TerminalLine(kind, code, ws, to))
    IN  /\ outputDiv' = [od EXCEPT ![r] = div]
        /\ timer' = clearKillTimer(tm)
        /\ killTimer' = 0
        /\ commandHistory' = Append(commandHistory,
                                [command |-> run[r].script, output |-> div,
                                 isError |-> TerminalIsError(kind, code, ws, to),
                                 duration |-> dur])
        /\ isRunning' = FALSE
        /\ currentProcess' = 0
        /\ run' = [run EXCEPT ![r].pc = "done"]
        /\ wasStopped' = ws
        /\ timedOut' = to

\* the handler settles no promise
NoFinish(ws, to, od, tm) ==
    /\ outputDiv' = od
    /\ timer' = tm
    /\ wasStopped' = ws
    /\ timedOut' = to
    /\ UNCHANGED << killTimer, commandHistory, isRunning, currentProcess, run >>

\* the run reported at the moment the signal is sent
KillReportsAtOnce(p, k, ws, to, od, tm, dur) ==
    IF run[p].pc = "await"
    THEN /\ Finish(p, IF k = "error" THEN "error" ELSE "close", "null",
                   ws, to, od, tm, dur)
         /\ UNCHANGED termPending
    ELSE /\ NoFinish(ws, to, od, tm)
         /\ termPending' = IF k = "terminates"
                           THEN [termPending EXCEPT ![p] = TRUE]
                           ELSE termPending

\* this.currentProcess.kill('SIGTERM') as the last statement of a handler:
\* an 'error' emitted by kill rejects the promise of the run of that child
Kill(p, k, ws, to, od, tm, dur) ==
    IF k = "error" /\ run[p].pc = "await"
    THEN /\ Finish(p, "error", "null", ws, to, od, tm, dur)
         /\ UNCHANGED termPending
    ELSE /\ NoFinish(ws, to, od, tm)
         /\ termPending' = IF k = "terminates"
                           THEN [termPending EXCEPT ![p] = TRUE]
                           ELSE termPending

KillChoices(doesKill) == IF doesKill THEN KillResults ELSE {"none"}
DurationChoices(finishes) == IF finishes THEN Durations ELSE {"none"}

(***************************************************************************)
(* runScript up to the await.                                              *)
(***************************************************************************)
\* the guard without the isRunning test
RunScriptGuardNoRunning(script) == script = <<>>

\* if (!script || this.isRunning) return;
RunScriptGuard(script) == script = <<>> \/ isRunning

AttachBlock(r) ==
    (IF \E i \in 1..Len(scriptOutput) : scriptOutput[i] = Placeholder
     THEN <<>> ELSE scriptOutput) \o <<r>>

RunScriptRejected(input) ==
    /\ RunScriptGuard(Trim(input))
    /\ lastEvent' = Event("runScript", 0, "rejected", Trim(input))
    /\ UNCHANGED << isRunning, currentProcess, killTimer, wasStopped, timedOut,
                    commandHistory, scriptOutput, outputDiv, outputChars, run,
                    proc, termPending, timer, nRuns, nChunks, arrived, chatVars, appVars, stopRequested >>

RunScriptBlocked(input) ==
    LET script == Trim(input)
        r == nRuns + 1
        div == appendMessage(<<>>, "sudo is blocked in this app", "output-error")
    IN  /\ ~RunScriptGuard(script)
        /\ SudoTest(script)
        /\ nRuns < MaxRuns
        /\ nRuns' = r
        /\ scriptOutput' = AttachBlock(r)
        /\ outputDiv' = [outputDiv EXCEPT ![r] = div]
        /\ commandHistory' = Append(commandHistory,
                                [command |-> script, output |-> div,
                                 isError |-> TRUE, duration |-> "0.00"])
        /\ run' = [run EXCEPT ![r] = [script |-> script, pc |-> "blocked"]]
        /\ lastEvent' = Event("runScript", r, "blocked", script)
        /\ UNCHANGED << isRunning, currentProcess, killTimer, wasStopped,
                        timedOut, outputChars, proc, termPending, timer,
                        nChunks, arrived, chatVars, appVars, stopRequested >>

RunScriptSpawn(input) ==
    LET script == Trim(input)
        r == nRuns + 1
    IN  /\ ~RunScriptGuard(script)
        /\ ~SudoTest(script)
        /\ nRuns < MaxRuns
        /\ nRuns' = r
        /\ isRunning' = TRUE
        /\ wasStopped' = FALSE
        /\ timedOut' = FALSE
        /\ scriptOutput' = AttachBlock(r)
        /\ outputDiv' = [outputDiv EXCEPT ![r] = <<>>]
        /\ outputChars' = [outputChars EXCEPT ![r] = 0]
        /\ currentProcess' = r
        /\ killTimer' = r
        /\ timer' = [timer EXCEPT ![r] = "armed"]
        /\ proc' = [proc EXCEPT ![r] = "alive"]
        /\ run' = [run EXCEPT ![r] = [script |-> script, pc |-> "await"]]
        /\ lastEvent' = Event("runScript", r, "spawned", script)
        /\ UNCHANGED << commandHistory, termPending, nChunks, arrived, chatVars, appVars, stopRequested >>

\* spawn throws, or the child emits 'error' on the next tick, before any
\* other callback: the catch and finally blocks run with no event between
RunScriptSpawnFails(input) ==
    LET script == Trim(input)
        r == nRuns + 1
        div == appendMessage(<<>>, "Error: message", "output-error")
    IN  /\ ~RunScriptGuard(script)
        /\ ~SudoTest(script)
        /\ nRuns < MaxRuns
        /\ nRuns' = r
        /\ \E how \in SpawnResults \ {"ok"}, dur \in Durations :
            /\ timer' = [timer EXCEPT ![r] = IF how = "error" THEN "cleared" ELSE @]
            /\ commandHistory' = Append(commandHistory,
                                    [command |-> script, output |-> div,
                                     isError |-> TRUE, duration |-> dur])
            /\ lastEvent' = Event("runScript", r, how, script)
        /\ isRunning' = FALSE
        /\ wasStopped' = FALSE
        /\ timedOut' = FALSE
        /\ scriptOutput' = AttachBlock(r)
        /\ outputDiv' = [outputDiv EXCEPT ![r] = div]
        /\ outputChars' = [outputChars EXCEPT ![r] = 0]
        /\ currentProcess' = 0
        /\ killTimer' = 0
        /\ run' = [run EXCEPT ![r] = [script |-> script, pc |-> "done"]]
        /\ UNCHANGED << proc, termPending, nChunks, arrived, chatVars, appVars, stopRequested >>

RunScript ==
    \E input \in ScriptInputs :
        \/ RunScriptRejected(input)
        \/ RunScriptBlocked(input)
        \/ RunScriptSpawn(input)
        \/ RunScriptSpawnFails(input)

(***************************************************************************)
(* The callback of setTimeout.                                             *)
(***************************************************************************)
KillTimerFire(r) ==
    /\ timer[r] = "armed"
    /\ \E k \in KillChoices(currentProcess # 0) :
       \E dur \in DurationChoices(k = "error") :
        /\ IF currentProcess # 0
           THEN Kill(currentProcess, k, wasStopped, TRUE, outputDiv,
                     [timer EXCEPT ![r] = "fired"], dur)
           ELSE /\ NoFinish(wasStopped, TRUE, outputDiv,
                            [timer EXCEPT ![r] = "fired"])
                /\ UNCHANGED termPending
        /\ lastEvent' = Event("killTimer", r, k, <<>>)
    /\ UNCHANGED << scriptOutput, outputChars, proc, nRuns, nChunks, arrived, chatVars, appVars,
                    stopRequested >>

(***************************************************************************)
(* stopScript.                                                             *)
(***************************************************************************)
StopScriptGuard == currentProcess # 0 /\ isRunning

\* wasStopped set before the test of the guard
StopScriptFlagsFirst ==
    IF StopScriptGuard
    THEN \E k \in KillResults : \E dur \in DurationChoices(k = "error") :
            /\ Kill(currentProcess, k, TRUE, timedOut, outputDiv, timer, dur)
            /\ stopRequested' = [stopRequested EXCEPT ![currentProcess] =
                                    [requested |-> TRUE, div |-> outputDiv[currentProcess]]]
            /\ lastEvent' = Event("stopScript", currentProcess, k, <<>>)
            /\ UNCHANGED << scriptOutput, outputChars, proc, nRuns, nChunks, arrived, chatVars, appVars >>
    ELSE /\ lastEvent' = Event("stopScript", 0, "ignored", <<>>)
         /\ wasStopped' = TRUE
         /\ UNCHANGED << isRunning, currentProcess, killTimer,
                         timedOut, commandHistory, scriptOutput, outputDiv,
                         outputChars, run, proc, termPending, timer, nRuns,
                         nChunks, arrived, chatVars, appVars, stopRequested >>

StopScript ==
    IF StopScriptGuard
    THEN \E k \in KillResults : \E dur \in DurationChoices(k = "error") :
            /\ Kill(currentProcess, k, TRUE, timedOut, outputDiv, timer, dur)
            /\ stopRequested' = [stopRequested EXCEPT ![currentProcess] =
                                    [requested |-> TRUE, div |-> outputDiv[currentProcess]]]
            /\ lastEvent' = Event("stopScript", currentProcess, k, <<>>)
            /\ UNCHANGED << scriptOutput, outputChars, proc, nRuns, nChunks, arrived, chatVars, appVars >>
    ELSE /\ lastEvent' = Event("stopScript", 0, "ignored", <<>>)
         /\ UNCHANGED << isRunning, currentProcess, killTimer, wasStopped,
                         timedOut, commandHistory, scriptOutput, outputDiv,
                         outputChars, run, proc, termPending, timer, nRuns,
                         nChunks, arrived, chatVars, appVars, stopRequested >>

(***************************************************************************)
(* The 'data' handlers of stdout and stderr of the child of run r.         *)
(***************************************************************************)
\* the guard without the test of the cap
DataGuardNoCap(r) == timedOut \/ wasStopped

\* if (outputChars > this.maxOutputChars || this.timedOut || this.wasStopped) return;
DataGuard(r) == outputChars[r] > maxOutputChars \/ timedOut \/ wasStopped

OnData(r, cls, data) ==
    /\ proc[r] = "alive"
    /\ nChunks < MaxChunks
    /\ nChunks' = nChunks + 1
    /\ arrived' = [arrived EXCEPT ![r] = Append(@, nChunks + 1)]
    /\ IF DataGuard(r)
       THEN /\ lastEvent' = Event(cls, r, "dropped", <<>>)
            /\ UNCHANGED << isRunning, currentProcess, killTimer, wasStopped,
                            timedOut, commandHistory, outputDiv, outputChars,
                            run, termPending, timer >>
       ELSE LET res   == appendLines(outputDiv[r], data, cls, nChunks + 1)
                chars == outputChars[r] + res.added
                over  == chars > maxOutputChars
                div   == IF over
                         THEN appendMessage(res.div, "Output truncated (too large)",
                                            "output-error")
                         ELSE res.div
                od    == [outputDiv EXCEPT ![r] = div]
            IN  /\ outputChars' = [outputChars EXCEPT ![r] = chars]
                /\ \E k \in KillChoices(over /\ currentProcess # 0) :
                   \E dur \in DurationChoices(k = "error") :
                    /\ IF over /\ currentProcess # 0
                       THEN Kill(currentProcess, k, TRUE, timedOut, od, timer, dur)
                       ELSE /\ NoFinish(over \/ wasStopped, timedOut, od, timer)
                            /\ UNCHANGED termPending
                    /\ lastEvent' = Event(cls, r, IF over THEN k ELSE "appended", <<>>)
    /\ UNCHANGED << scriptOutput, proc, nRuns, stopRequested, chatVars, appVars >>

StdoutData(r) == \E data \in ChunkData : OnData(r, "output-stdout", data)

StderrData(r) == \E data \in ChunkData : OnData(r, "output-stderr", data)

(***************************************************************************)
(* 'close' of the child of run r: the process has ended and its streams    *)
(* are closed.  It resolves the promise unless 'error' rejected it before. *)
(***************************************************************************)
ProcessClose(r) ==
    /\ proc[r] = "alive"
    /\ proc' = [proc EXCEPT ![r] = "closed"]
    /\ termPending' = [termPending EXCEPT ![r] = FALSE]
    /\ IF run[r].pc = "await"
       THEN \E code \in ExitCodes, dur \in Durations :
              /\ Finish(r, "close", code, wasStopped, timedOut, outputDiv, timer, dur)
              /\ lastEvent' = Event("close", r, code, <<>>)
       ELSE /\ lastEvent' = Event("close", r, "settled", <<>>)
            /\ UNCHANGED << isRunning, currentProcess, killTimer, wasStopped,
                            timedOut, commandHistory, outputDiv, run, timer >>
    /\ UNCHANGED << scriptOutput, outputChars, nRuns, nChunks, arrived, chatVars, appVars, stopRequested >>

(***************************************************************************)
(* clearOutput.                                                            *)
(***************************************************************************)
\* clearOutput that also leaves the Running state
ClearOutputResetsRun ==
    /\ scriptOutput' = <<Placeholder>>
    /\ commandHistory' = <<>>
    /\ isRunning' = FALSE
    /\ lastEvent' = Event("clearOutput", 0, "none", <<>>)
    /\ UNCHANGED << currentProcess, killTimer, wasStopped, timedOut,
                    outputDiv, outputChars, run, proc, termPending, timer,
                    nRuns, nChunks, arrived, chatVars, appVars, stopRequested >>

ClearOutput ==
    /\ scriptOutput' = <<Placeholder>>
    /\ commandHistory' = <<>>
    /\ lastEvent' = Event("clearOutput", 0, "none", <<>>)
    /\ UNCHANGED << isRunning, currentProcess, killTimer, wasStopped, timedOut,
                    outputDiv, outputChars, run, proc, termPending, timer,
                    nRuns, nChunks, arrived, chatVars, appVars, stopRequested >>

Next ==
    \/ RunScript
    \/ \E r \in Runs : KillTimerFire(r)
    \/ StopScript
    \/ \E r \in Runs : StdoutData(r)
    \/ \E r \in Runs : StderrData(r)
    \/ \E r \in Runs : ProcessClose(r)
    \/ ClearOutput

Spec == Init /\ [][Next]_vars

\* the event loop runs a due timer, and a child that a delivered SIGTERM
\* ends does end and closes its streams
FairSpec ==
    /\ Spec
    /\ \A r \in Runs : WF_vars(KillTimerFire(r))
    /\ \A r \in Runs : WF_vars(termPending[r] /\ ProcessClose(r))

(***************************************************************************)
(* Chat.  renderMessages computes locationData of an assistant reply from  *)
(* the user message before it; the click handler of the map button         *)
(* navigates the map.  The map application has been constructed.           *)
(***************************************************************************)
RenderMessages ==
    /\ locationData' = extractLocationFromQuestion(question)
    /\ UNCHANGED << question, mapTarget, execVars, appVars >>

\* mapBtn.onclick: the button exists if locationData is not null
MapButtonClick ==
    /\ locationData.type \in {"coordinates", "place"}
    /\ mapTarget' = IF locationData.type = "coordinates" \/ locationData.placeName # <<>>
                    THEN locationData
                    ELSE mapTarget
    /\ UNCHANGED << question, locationData, execVars, appVars >>

InitChat ==
    /\ InitExecutor
    /\ NoSessions
    /\ NoOllama
    /\ question \in Questions
    /\ locationData = NotRendered
    /\ mapTarget = NoTarget

NextChat ==
    \/ RenderMessages
    \/ MapButtonClick

ChatSpec == InitChat /\ [][NextChat]_vars

(***************************************************************************)
(* Session tabs.  this.sessions is a Map from session id to session; the   *)
(* model keeps its entries in insertion order, each with its id and        *)
(* customName.  A session id is the value of Date.now() when it is made.   *)
(***************************************************************************)
CustomNames == {"undefined", "OSM Locations", "saved chat"}
Clock == 2..MaxTime

Session(id, name) == [id |-> id, customName |-> name]

\* Array.from(sessions.keys())
Keys(s) == {s[i].id : i \in 1..Len(s)}

\* sessions.set(id, session): a present key keeps its place
MapSet(s, id, name) ==
    IF id \in Keys(s)
    THEN [i \in 1..Len(s) |-> IF s[i].id = id THEN Session(id, name) ELSE s[i]]
    ELSE Append(s, Session(id, name))

\* sessions.delete(id)
MapDelete(s, id) == SelectSeq(s, LAMBDA e : e.id # id)

\* Array.from(this.sessions.keys())[0]
FirstKey(s) == IF s = <<>> THEN Undefined ELSE s[1].id

\* querySelector(`[data-session-id="${sessionId}"]`) and tab.remove(): the
\* first tab made for that id, if there is one
RemoveTab(t, id) ==
    IF \E i \in 1..Len(t) : t[i] = id
    THEN LET i == CHOOSE k \in 1..Len(t) :
                    t[k] = id /\ \A m \in 1..(k - 1) : t[m] # id
         IN  SubSeq(t, 1, i - 1) \o SubSeq(t, i + 1, Len(t))
    ELSE t

\* the first session with that customName, 0 if there is none
FindByName(s, name) ==
    IF \E i \in 1..Len(s) : s[i].customName = name
    THEN s[CHOOSE k \in 1..Len(s) :
              s[k].customName = name /\ \A m \in 1..(k - 1) : s[m].customName # name].id
    ELSE Undefined

SessionEvent(op, id, refused) == [op |-> op, id |-> id, refused |-> refused]

\* switchToSession: the assignment comes before the lookup of the session
switchToSession(sessionId) == currentSessionId' = sessionId

\* the guard of closeSessionTab that never refuses
IsLastSessionNever(s) == FALSE

\* if (this.sessions.size === 1)
IsLastSession(s) == Len(s) = 1

closeSessionTab(sessionId) ==
    IF IsLastSession(sessions)
    THEN UNCHANGED << sessions, tabs, currentSessionId >>
    ELSE LET rest == MapDelete(sessions, sessionId)
         IN  /\ sessions' = rest
             /\ tabs' = RemoveTab(tabs, sessionId)
             /\ IF currentSessionId = sessionId
                THEN switchToSession(FirstKey(rest))
                ELSE UNCHANGED currentSessionId

\* sessions.set, the new tab with its handlers, switchToSession
AddSession(id, name) ==
    /\ sessions' = MapSet(sessions, id, name)
    /\ tabs' = Append(tabs, id)
    /\ switchToSession(id)

\* createNewSessionTab up to its await: the prompt selection 'default' needs
\* no file and the call runs to its end, any other waits for the file
CreateNewSessionTab ==
    /\ nextSessionNumber <= MaxSessions
    /\ nextSessionNumber' = nextSessionNumber + 1
    /\ \E t \in now..MaxTime :
        /\ now' = t
        /\ \E needsFile \in BOOLEAN :
            IF needsFile
            THEN /\ creating' = Append(creating, t)
                 /\ sessionEvent' = SessionEvent("createNewSessionTab", t, FALSE)
                 /\ UNCHANGED << sessions, tabs, currentSessionId >>
            ELSE /\ AddSession(t, "undefined")
                 /\ sessionEvent' = SessionEvent("created", t, FALSE)
                 /\ UNCHANGED creating
    /\ UNCHANGED << staleCall, execVars, chatVars, ollamaVars >>

\* the rest of createNewSessionTab once the prompt file has been read
CreateNewSessionTabResume(i) ==
    /\ i \in 1..Len(creating)
    /\ AddSession(creating[i], "undefined")
    /\ creating' = SubSeq(creating, 1, i - 1) \o SubSeq(creating, i + 1, Len(creating))
    /\ sessionEvent' = SessionEvent("created", creating[i], FALSE)
    /\ UNCHANGED << nextSessionNumber, now, staleCall, execVars, chatVars, ollamaVars >>

GetOrCreateOSMSession ==
    LET found == FindByName(sessions, "OSM Locations")
    IN  /\ IF found # Undefined
           THEN /\ switchToSession(found)
                /\ sessionEvent' = SessionEvent("switchToSession", found, FALSE)
                /\ UNCHANGED << sessions, tabs, nextSessionNumber, now >>
           ELSE /\ nextSessionNumber <= MaxSessions
                /\ nextSessionNumber' = nextSessionNumber + 1
                /\ \E t \in now..MaxTime :
                    /\ now' = t
                    /\ AddSession(t, "OSM Locations")
                    /\ sessionEvent' = SessionEvent("created", t, FALSE)
        /\ UNCHANGED << creating, staleCall, execVars, chatVars, ollamaVars >>

\* the end of loading a saved chat: the session of that customName is
\* reused, else a session is made for the file
LoadChatHistory ==
    \E name \in CustomNames :
        LET found == IF name = "undefined" THEN Undefined
                     ELSE FindByName(sessions, name)
        IN  /\ IF found # Undefined
               THEN /\ switchToSession(found)
                    /\ sessionEvent' = SessionEvent("switchToSession", found, FALSE)
                    /\ UNCHANGED << sessions, tabs, now >>
               ELSE /\ Len(tabs) < MaxSessions
                    /\ \E t \in now..MaxTime :
                        /\ now' = t
                        /\ AddSession(t, name)
                        /\ sessionEvent' = SessionEvent("created", t, FALSE)
            /\ UNCHANGED << nextSessionNumber, creating, staleCall, execVars,
                            chatVars, ollamaVars >>

\* click on a tab outside its close button
TabClick(i) ==
    /\ i \in 1..Len(tabs)
    /\ switchToSession(tabs[i])
    /\ staleCall' = (staleCall \/ tabs[i] \notin Keys(sessions))
    /\ sessionEvent' = SessionEvent("switchToSession", tabs[i], FALSE)
    /\ UNCHANGED << sessions, tabs, nextSessionNumber, creating, now,
                    execVars, chatVars, ollamaVars >>

\* click on the close button of a tab
CloseClick(i) ==
    /\ i \in 1..Len(tabs)
    /\ closeSessionTab(tabs[i])
    /\ staleCall' = (staleCall \/ tabs[i] \notin Keys(sessions))
    /\ sessionEvent' = SessionEvent("closeSessionTab", tabs[i], IsLastSession(sessions))
    /\ UNCHANGED << nextSessionNumber, creating, now, execVars, chatVars, ollamaVars >>

\* the constructor has called createNewSessionTab
InitSessions ==
    /\ InitExecutor
    /\ NoChat
    /\ NoOllama
    /\ nextSessionNumber = 2
    /\ now \in Clock
    /\ staleCall = FALSE
    /\ \/ /\ sessions = <<>>
          /\ currentSessionId = 1
          /\ tabs = <<>>
          /\ creating = << now >>
          /\ sessionEvent = SessionEvent("createNewSessionTab", now, FALSE)
       \/ /\ sessions = << Session(now, "undefined") >>
          /\ currentSessionId = now
          /\ tabs = << now >>
          /\ creating = <<>>
          /\ sessionEvent = SessionEvent("created", now, FALSE)

NextSessions ==
    \/ CreateNewSessionTab
    \/ \E i \in 1..MaxSessions : CreateNewSessionTabResume(i)
    \/ GetOrCreateOSMSession
    \/ LoadChatHistory
    \/ \E i \in 1..MaxSessions : TabClick(i)
    \/ \E i \in 1..MaxSessions : CloseClick(i)

SessionSpec == InitSessions /\ [][NextSessions]_vars

(***************************************************************************)
(* Ollama service control.  Each spawn of 'ollama serve' is a child with   *)
(* its own 'data', 'close' and 'error' handlers; the handlers reach the    *)
(* handle through this.ollamaProcess.  The log is not modelled.            *)
(***************************************************************************)
\* spawn() returns a child that runs, returns a child that emits 'error' on
\* the next tick (the executable cannot be run) and 'close' once its streams
\* are closed, or throws
OllamaSpawnResults == {"ok", "error", "throws"}
\* process.kill(pid, 'SIGTERM') delivers the signal or throws
ProcessKillResults == {"sent", "throws"}

OllamaEvent(op, p, arg) == [op |-> op, child |-> p, arg |-> arg]

\* if (this.ollamaProcess) return;
HandleHeld == ollamaProcess # 0

\* click on the Start button: startOllama
StartOllama ==
    /\ ~startDisabled
    /\ pointerEvents = "auto"
    /\ IF HandleHeld
       THEN /\ ollamaEvent' = OllamaEvent("startOllama", 0, "held")
            /\ UNCHANGED << ollamaProcess, ollamaIsExternal, startDisabled,
                            stopDisabled, ollamaServiceStatus, child, nOllama >>
       ELSE /\ nOllama < MaxOllama
            /\ nOllama' = nOllama + 1
            /\ \E how \in OllamaSpawnResults :
                /\ ollamaProcess' = IF how = "ok" THEN nOllama + 1 ELSE 0
                /\ child' = [child EXCEPT ![nOllama + 1] =
                                CASE how = "ok"     -> "alive"
                                  [] how = "error"  -> "failed"
                                  [] how = "throws" -> "none"]
                /\ ollamaIsExternal' = IF how = "throws" THEN ollamaIsExternal ELSE FALSE
                /\ ollamaServiceStatus' =
                        CASE how = "ok"     -> "starting..."
                          [] how = "error"  -> "error"
                          [] how = "throws" -> ollamaServiceStatus
                /\ startDisabled' = (how = "ok")
                /\ stopDisabled' = (how # "ok")
                /\ ollamaEvent' = OllamaEvent("startOllama", nOllama + 1, how)
    /\ UNCHANGED << pointerEvents, signalled, execVars, chatVars, sessVars >>

\* click on the Stop button: stopOllama
StopOllama ==
    /\ ~stopDisabled
    /\ pointerEvents = "auto"
    /\ IF ~HandleHeld
       THEN /\ ollamaEvent' = OllamaEvent("stopOllama", 0, "none")
            /\ UNCHANGED signalled
       ELSE \E k \in ProcessKillResults :
            /\ signalled' = [signalled EXCEPT ![ollamaProcess] = @ \/ k = "sent"]
            /\ ollamaEvent' = OllamaEvent("stopOllama", ollamaProcess, k)
    /\ UNCHANGED << ollamaProcess, ollamaIsExternal, startDisabled, stopDisabled,
                    pointerEvents, ollamaServiceStatus, child, nOllama,
                    execVars, chatVars, sessVars >>

\* 'data' of the stdout of child p
OllamaStdout(p) ==
    /\ child[p] = "alive"
    /\ ollamaServiceStatus' = "running"
    /\ ollamaEvent' = OllamaEvent("stdout", p, "none")
    /\ UNCHANGED << ollamaProcess, ollamaIsExternal, startDisabled, stopDisabled,
                    pointerEvents, child, signalled, nOllama,
                    execVars, chatVars, sessVars >>

\* 'close' of child p: the process has ended, or could not be run, and its
\* streams are closed
OllamaClose(p) ==
    /\ child[p] \in {"alive", "failed"}
    /\ child' = [child EXCEPT ![p] = "closed"]
    /\ ollamaProcess' = 0
    /\ ollamaServiceStatus' = "stopped"
    /\ startDisabled' = FALSE
    /\ stopDisabled' = TRUE
    /\ ollamaEvent' = OllamaEvent("close", p, child[p])
    /\ UNCHANGED << ollamaIsExternal, pointerEvents, signalled, nOllama,
                    execVars, chatVars, sessVars >>

\* checkOllamaStatus after the answer of the service, or after none came
CheckOllamaStatus ==
    /\ \E ok \in BOOLEAN :
        /\ IF ok
           THEN IF ~HandleHeld
                THEN /\ ollamaIsExternal' = TRUE
                     /\ startDisabled' = TRUE
                     /\ stopDisabled' = TRUE
                     /\ pointerEvents' = "none"
                     /\ ollamaServiceStatus' = "external"
                ELSE /\ ollamaIsExternal' = FALSE
                     /\ UNCHANGED << startDisabled, stopDisabled, pointerEvents,
                                     ollamaServiceStatus >>
           ELSE /\ ollamaIsExternal' = FALSE
                /\ IF ~HandleHeld
                   THEN /\ startDisabled' = FALSE
                        /\ pointerEvents' = "auto"
                        /\ ollamaServiceStatus' = "stopped"
                   ELSE UNCHANGED << startDisabled, pointerEvents, ollamaServiceStatus >>
                /\ UNCHANGED stopDisabled
        /\ ollamaEvent' = OllamaEvent("checkOllamaStatus", 0, IF ok THEN "ok" ELSE "failed")
    /\ UNCHANGED << ollamaProcess, child, signalled, nOllama,
                    execVars, chatVars, sessVars >>

InitOllama ==
    /\ InitExecutor
    /\ NoChat
    /\ NoSessions
    /\ NoOllama

NextOllama ==
    \/ StartOllama
    \/ StopOllama
    \/ \E p \in Children : OllamaStdout(p)
    \/ \E p \in Children : OllamaClose(p)
    \/ CheckOllamaStatus

OllamaSpec == InitOllama /\ [][NextOllama]_vars

(***************************************************************************)
(* Vocabulary of the properties.                                           *)
(***************************************************************************)
TerminalTexts ==
    { "Error: message", "Timed out", "Execution stopped by user",
      "Completed successfully", "Error: exited with code 2",
      "Error: exited with code" }

\* the stdout/stderr lines of an output block
DataLines(div) == SelectSeq(div, LAMBDA l : l.text = "data")

\* the terminal message of a run that has reported its outcome
TerminalText(r) ==
    LET div == outputDiv[r]
        i == CHOOSE j \in 1..Len(div) : div[j].text \in TerminalTexts
    IN  div[i].text

Reported(r) == run[r].pc = "done"

Alive == {r \in Runs : proc[r] = "alive"}

ArmedTimers == {r \in Runs : timer[r] = "armed"}

\* the maximal runs of word characters of a command line
RECURSIVE WordsOf(_, _)
WordsOf(s, cur) ==
    IF s = <<>> THEN (IF cur = <<>> THEN {} ELSE {cur})
    ELSE IF IsWordChar(Head(s)) THEN WordsOf(Tail(s), Append(cur, Head(s)))
    ELSE (IF cur = <<>> THEN {} ELSE {cur}) \cup WordsOf(Tail(s), <<>>)

LowerCase(w) ==
    [i \in 1..Len(w) |->
        CASE w[i] = "S" -> "s" [] w[i] = "U" -> "u" [] w[i] = "D" -> "d"
          [] w[i] = "O" -> "o" [] OTHER -> w[i]]

HasSudoToken(s) == \E w \in WordsOf(s, <<>>) : LowerCase(w) = <<"s", "u", "d", "o">>

IsPrefix(p, q) == Len(p) <= Len(q) /\ SubSeq(q, 1, Len(p)) = p

\* the step is a call of runScript
IsRunScriptStep == lastEvent'.op = "runScript"

(***************************************************************************)
(* C1.  At most one run at a time: the supervisor never has two spawned    *)
(* child processes alive together, whatever the order of submits, stops,   *)
(* timer callbacks, chunks and 'close'/'error' events.                     *)
(* Fails: kill() that cannot deliver SIGTERM emits 'error' on a child that *)
(* is still running, runScript ends the run, and the next submit spawns a  *)
(* second child.                                                           *)
(***************************************************************************)
C1_AtMostOneAlive == Cardinality(Alive) <= 1

(***************************************************************************)
(* C2.  A command line with the standalone token sudo (any letter case),   *)
(* submitted while nothing runs, is blocked: no child is spawned, no timer *)
(* is armed, the supervisor stays idle with a null process handle, and the *)
(* history gains one error entry with duration 0.00.                       *)
(***************************************************************************)
C2_SudoBlocked ==
    [][ (IsRunScriptStep /\ ~isRunning /\ HasSudoToken(lastEvent'.script))
        => /\ proc' = proc
           /\ timer' = timer
           /\ ArmedTimers' = {}
           /\ ~isRunning'
           /\ currentProcess' = 0
           /\ killTimer' = 0
           /\ Len(commandHistory') = Len(commandHistory) + 1
           /\ commandHistory'[Len(commandHistory')].isError
           /\ commandHistory'[Len(commandHistory')].duration = "0.00"
           /\ commandHistory'[Len(commandHistory')].command = lastEvent'.script
      ]_vars

C2_Witness ==
    /\ lastEvent.op = "runScript"
    /\ lastEvent.arg = "blocked"
    /\ lastEvent.script = <<"l", "s", ";", "S", "u", "D", "o">>
    /\ run[lastEvent.run].pc = "blocked"
    /\ proc[lastEvent.run] = "none"
    /\ commandHistory # <<>>

(***************************************************************************)
(* C3.  A submit while a run is Running changes nothing: process handle,   *)
(* timer, flags, output, character counter and history stay as they were,  *)
(* and nothing is spawned or queued.                                       *)
(***************************************************************************)
C3_SubmitWhileRunningNoEffect ==
    [][ (IsRunScriptStep /\ isRunning)
        => UNCHANGED << isRunning, currentProcess, killTimer, wasStopped,
                        timedOut, commandHistory, scriptOutput, outputDiv,
                        outputChars, run, proc, termPending, timer, nRuns,
                        nChunks, arrived, stopRequested >>
      ]_vars

C3_Witness ==
    /\ isRunning
    /\ lastEvent.op = "runScript"
    /\ lastEvent.arg = "rejected"
    /\ lastEvent.script # <<>>

(***************************************************************************)
(* C4.  Once a run has left Running (its timer fired, a stop was           *)
(* requested, or its outcome was reported) no later stdout/stderr chunk of *)
(* its process is appended to an output block.                             *)
(* Fails: after a run ended by 'error' with its child alive, the next      *)
(* run resets wasStopped/timedOut and the old child's chunks are appended. *)
(***************************************************************************)
LeftRunning(r) ==
    \/ Reported(r)
    \/ timer[r] = "fired"
    \/ stopRequested[r].requested

C4_NoOutputAfterLeavingRunning ==
    [][ \A r \in Runs :
          LeftRunning(r) => DataLines(outputDiv'[r]) = DataLines(outputDiv[r])
      ]_vars

(***************************************************************************)
(* C5.  A run whose timer fired before its process closed is reported      *)
(* Timed out, whatever the process reports later and whatever stop or cap  *)
(* breach happened in the run.                                             *)
(* Fails: when the kill of the timer callback (or a later one) makes the   *)
(* child emit 'error', the run is reported as failed.                      *)
(***************************************************************************)
C5_TimerFiredThenTimedOut ==
    \A r \in Runs :
        (Reported(r) /\ timer[r] = "fired") => TerminalText(r) = "Timed out"

(***************************************************************************)
(* C6.  A run is reported Timed out only if the timer armed for that run   *)
(* fired; a run whose process closes before its timer fires is never       *)
(* reported Timed out.                                                     *)
(***************************************************************************)
C6_TimedOutOnlyIfTimerFired ==
    \A r \in Runs :
        (Reported(r) /\ TerminalText(r) = "Timed out") => timer[r] = "fired"

C6_Witness ==
    \E r \in Runs :
        /\ Reported(r)
        /\ TerminalText(r) = "Timed out"
        /\ timer[r] = "fired"
        /\ proc[r] = "closed"

EndedByError(r) == TerminalText(r) = "Error: message"

RECURSIVE MaxOf(_)
MaxOf(S) ==
    LET x == CHOOSE y \in S : TRUE
    IN  IF S = {x} THEN x
        ELSE LET m == MaxOf(S \ {x}) IN IF x > m THEN x ELSE m

MaxChunkChars == MaxOf({SumSeq(d) : d \in ChunkData})

C8_CounterWithinOneChunkOfCap ==
    [][ \A r \in Runs :
          outputChars'[r] # outputChars[r]
            => /\ outputChars[r] <= maxOutputChars
               /\ outputChars'[r] <= maxOutputChars + MaxChunkChars
      ]_vars

C8_Witness ==
    \E r \in Runs :
        /\ outputChars[r] > maxOutputChars
        /\ lastEvent.run = r
        /\ lastEvent.op \in {"output-stdout", "output-stderr"}
        /\ lastEvent.arg \in KillResults

(***************************************************************************)
(* C9.  After the chunk that pushed the counter of a run above the cap, no *)
(* further stdout/stderr chunk of that run is appended to its output       *)
(* block, also when chunks still arrive before the process closes.         *)
(***************************************************************************)
C9_NoAppendAfterTruncation ==
    [][ \A r \in Runs :
          outputChars[r] > maxOutputChars
            => DataLines(outputDiv'[r]) = DataLines(outputDiv[r])
      ]_vars

C9_Witness ==
    \E r \in Runs :
        /\ outputChars[r] > maxOutputChars
        /\ lastEvent.run = r
        /\ lastEvent.op \in {"output-stdout", "output-stderr"}
        /\ lastEvent.arg = "dropped"

(***************************************************************************)
(* C10.  Every accepted run eventually reports a terminal outcome and the  *)
(* supervisor returns to idle, also after a timeout or a stop has sent     *)
(* SIGTERM.                                                                *)
(* Fails: runScript waits for 'close' or 'error' only; a child that        *)
(* ignores or traps SIGTERM and does not end by itself is never forced,    *)
(* so the run stays pending and every later submit is rejected.            *)
(***************************************************************************)
C10_RunEventuallyReported == isRunning ~> ~isRunning

(***************************************************************************)
(* C11.  The outcome of an executed run follows from (timer fired, stop or *)
(* truncation flag, exit code) by fixed precedence: Timed out, else        *)
(* Stopped, else success for code 0 or null, else failure with the code;   *)
(* and a run reports exactly one outcome.                                  *)
(* Fails: a run that the child's 'error' event ends is reported as failed  *)
(* although timedOut or wasStopped is set (the catch block tests neither). *)
(***************************************************************************)
\* the step that led here reported the outcome of a run that had spawned
JustReported ==
    /\ lastEvent.op # "runScript"
    /\ lastEvent.arg \in ExitCodes \cup {"error"}

\* the terminal message of the history entry pushed last
LastReportText ==
    LET out == commandHistory[Len(commandHistory)].output
    IN  out[Len(out)].text

OutcomeByPrecedence(to, ws, code) ==
    IF to THEN "Timed out"
    ELSE IF ws THEN "Execution stopped by user"
    ELSE IF code \in {"0", "null"} THEN "Completed successfully"
    ELSE IF code = "2" THEN "Error: exited with code 2"
    ELSE "Error: exited with code"

TerminalCount(r) ==
    Cardinality({i \in 1..Len(outputDiv[r]) : outputDiv[r][i].text \in TerminalTexts})

C11_OutcomeByPrecedence ==
    /\ JustReported
         => LastReportText = OutcomeByPrecedence(timedOut, wasStopped, lastEvent.arg)
    /\ \A r \in Runs : TerminalCount(r) = IF Reported(r) THEN 1 ELSE 0

(***************************************************************************)
(* C12.  A run whose process closes with code 0, whose timer did not fire, *)
(* for which no stop was requested and whose counter did not pass the cap  *)
(* is reported Completed successfully (no error entry), and its output     *)
(* block holds every chunk its process delivered, in arrival order.        *)
(* Fails: the 'data' handlers of a child that outlived its run (C1) still  *)
(* run; a chunk of that child that passes the cap sets the shared          *)
(* wasStopped and signals the current process, so the current run drops    *)
(* its later chunks and is reported stopped.                               *)
(***************************************************************************)
\* a sequence without its consecutive repetitions
RECURSIVE Collapse(_)
Collapse(q) ==
    IF Len(q) <= 1 THEN q
    ELSE IF q[1] = q[2] THEN Collapse(Tail(q))
    ELSE <<q[1]>> \o Collapse(Tail(q))

\* the 'data' events whose lines an output block holds, in the order of the block
LoggedChunks(div) ==
    LET d == DataLines(div)
    IN  Collapse([i \in 1..Len(d) |-> d[i].chunk])

\* the step that led here was 'close' of the child of run r with this code,
\* and it reported the outcome of run r
ClosedWith(r, code) ==
    /\ lastEvent.op = "close"
    /\ lastEvent.run = r
    /\ lastEvent.arg = code

\* nothing of run r itself asked for its end
Undisturbed(r) ==
    /\ timer[r] # "fired"
    /\ ~stopRequested[r].requested
    /\ outputChars[r] <= maxOutputChars

C12_CodeZeroCompleted ==
    \A r \in Runs :
        (ClosedWith(r, "0") /\ Undisturbed(r))
            => /\ TerminalText(r) = "Completed successfully"
               /\ ~commandHistory[Len(commandHistory)].isError
               /\ LoggedChunks(outputDiv[r]) = arrived[r]

(***************************************************************************)
(* C13.  A run whose process closes with a non-zero code (2), whose timer  *)
(* did not fire and in which no stop or truncation occurred, is reported   *)
(* as a command failure with the code in the message; it is not reported   *)
(* failed (supervisor error), timed out or stopped.                        *)
(* Fails: as C12, a chunk of a child that outlived its run (C1) sets the   *)
(* shared wasStopped, and the current run, which exits with 2, is reported *)
(* stopped.                                                                *)
(***************************************************************************)
C13_NonZeroCodeReported ==
    \A r \in Runs :
        (ClosedWith(r, "2") /\ Undisturbed(r))
            => /\ TerminalText(r) = "Error: exited with code 2"
               /\ commandHistory[Len(commandHistory)].isError
               /\ commandHistory[Len(commandHistory)].output = outputDiv[r]

(***************************************************************************)
(* C14.  When spawn fails or the child emits 'error', the run is reported  *)
(* failed: "Error: <message>" is the last line of its output block and the *)
(* history gains an error entry with that block.  The catch and finally    *)
(* blocks leave the supervisor idle: isRunning false, process handle null, *)
(* no timer handle and no timer armed, and a non-empty command line passes *)
(* the guard of the next submit.                                           *)
(***************************************************************************)
\* the step that led here ended a run by a spawn failure or an 'error' event
JustFailed == lastEvent.arg \in {"throws", "error"}

LastEntry == commandHistory[Len(commandHistory)]

C14_ErrorResolvesFailed ==
    JustFailed
        => /\ commandHistory # <<>>
           /\ LastEntry.isError
           /\ LastReportText = "Error: message"
           /\ \E p \in Runs :
                /\ Reported(p)
                /\ LastEntry.output = outputDiv[p]
                /\ LastEntry.command = run[p].script
                /\ TerminalCount(p) = 1
           /\ ~isRunning
           /\ currentProcess = 0
           /\ killTimer = 0
           /\ ArmedTimers = {}
           /\ \A input \in ScriptInputs :
                Trim(input) # <<>> => ~RunScriptGuard(Trim(input))

\* both ways to fail have happened: spawn failed for one run, the child of
\* another emitted 'error' after it had written output
C14_Witness ==
    /\ JustFailed
    /\ \E p, q \in Runs :
        /\ Reported(p) /\ proc[p] = "none" /\ EndedByError(p)
        /\ Reported(q) /\ proc[q] # "none" /\ EndedByError(q)
        /\ DataLines(outputDiv[q]) # <<>>
    /\ Len(commandHistory) = 2

(***************************************************************************)
(* C15.  No retries.  A child process is spawned only by a step that is a  *)
(* submit, for the run of that submit and not more than one per submit; no *)
(* timer callback, stop, chunk, 'close' or 'error', and no run that ended  *)
(* timed out, stopped, blocked or failed, spawns one.  The number of       *)
(* spawned processes never exceeds the number of submits that passed the   *)
(* guard and hold no sudo token.                                           *)
(***************************************************************************)
Spawned == {r \in Runs : proc[r] # "none"}

AcceptedNotBlocked == {r \in 1..nRuns : ~HasSudoToken(run[r].script)}

C15_NoRetries ==
    /\ [](/\ Spawned \subseteq AcceptedNotBlocked
          /\ Cardinality(Spawned) <= Cardinality(AcceptedNotBlocked))
    /\ [][ proc' # proc =>
            /\ \A r \in Spawned' \ Spawned :
                /\ IsRunScriptStep
                /\ lastEvent'.run = r
                /\ lastEvent'.arg = "spawned"
                /\ nRuns' = nRuns + 1
            /\ Cardinality(Spawned' \ Spawned) <= 1
         ]_vars

\* a run timed out and was reported, a submit was blocked, events went on,
\* and one process was spawned in all
C15_Witness ==
    /\ \E p, q \in Runs :
        /\ run[p].pc = "blocked"
        /\ Reported(q) /\ TerminalText(q) = "Timed out" /\ proc[q] = "closed"
    /\ Cardinality(Spawned) = 1
    /\ lastEvent.op = "stopScript"

(***************************************************************************)
(* C16.  At most one timeout is armed at a time.  A timeout is armed only  *)
(* for the run in progress: an armed timeout of run r means that r awaits  *)
(* its process, which is the current process, and that the timer handle is *)
(* r's.  A reported run has no armed timeout, whatever path ended it, and  *)
(* none is armed while the supervisor is idle; so the timeout of a run     *)
(* cannot fire during a later run or signal a later run's process.         *)
(***************************************************************************)
C16_OneTimerPerRun ==
    /\ Cardinality(ArmedTimers) <= 1
    /\ ~isRunning => ArmedTimers = {}
    /\ \A r \in Runs :
        /\ timer[r] = "armed"
             => /\ run[r].pc = "await"
                /\ isRunning
                /\ currentProcess = r
                /\ killTimer = r
        /\ run[r].pc = "await" => timer[r] \in {"armed", "fired"}
        /\ Reported(r) => timer[r] # "armed"
        /\ run[r].pc \in {"none", "blocked"} => timer[r] = "none"

\* the timeout of the first run was cancelled at its report, the second run
\* is in progress with its own timeout armed
C16_Witness ==
    \E p, q \in Runs :
        /\ Reported(p) /\ timer[p] = "cleared" /\ proc[p] = "closed"
        /\ run[q].pc = "await" /\ timer[q] = "armed"
        /\ currentProcess = q

(***************************************************************************)
(* C17.  When 'close' reports no exit code (null) and neither timedOut nor *)
(* wasStopped is set, the run is reported Completed successfully and its   *)
(* history entry is no error entry; this includes a process that a signal  *)
(* not sent by the supervisor ended.                                       *)
(***************************************************************************)
C17_NullCodeIsSuccess ==
    \A r \in Runs :
        (ClosedWith(r, "null") /\ ~timedOut /\ ~wasStopped)
            => /\ Reported(r)
               /\ TerminalText(r) = "Completed successfully"
               /\ ~LastEntry.isError
               /\ LastEntry.output = outputDiv[r]

\* the process ended with no code although the supervisor sent it no signal:
\* no timer fired, no stop was requested and no cap was passed in any run
C17_Witness ==
    \E r \in Runs :
        /\ ClosedWith(r, "null")
        /\ ~timedOut /\ ~wasStopped
        /\ \A q \in Runs :
            /\ timer[q] # "fired"
            /\ ~stopRequested[q].requested
            /\ outputChars[q] <= maxOutputChars
        /\ DataLines(outputDiv[r]) # <<>>
        /\ TerminalText(r) = "Completed successfully"

(***************************************************************************)
(* C18.  For a question that holds a decimal pair "A, B" with B written    *)
(* with a minus sign (both within the ranges of latitude and longitude),   *)
(* such as the README example "Coordinates 51.5074, -0.1278",              *)
(* extractLocationFromQuestion returns coordinates with lat = A and lon =  *)
(* B, the sign of B kept, and the map button navigates there.              *)
(* Fails: in the first pattern the optional [-] after the separator takes  *)
(* the minus sign of B, group 3 captures B without it, and only a W makes  *)
(* lon negative; the README example gives lon = +0.1278.                   *)
(***************************************************************************)
\* the text w is in s from position i on, and is not the tail of a longer number
WrittenAt(w, s, i) ==
    /\ i + Len(w) - 1 <= Len(s)
    /\ SubSeq(s, i, i + Len(w) - 1) = w
    /\ i = 1 \/ s[i - 1] \notin DigitChars \cup {"-", "."}

\* the pairs "A, B" of the question with B negative and both in range
NegativeLonPairs ==
    { pair \in FirstNumbers \X SecondNumbers :
        /\ pair[2][1] = "-"
        /\ WithinRange(parseFloat(pair[1]), maxLatitude)
        /\ WithinRange(parseFloat(pair[2]), maxLongitude)
        /\ \E i \in 1..Len(question) :
             WrittenAt(pair[1] \o <<",", " ">> \o pair[2], question, i) }

C18_SignPreserved ==
    \A pair \in NegativeLonPairs :
        LET asWritten == Location("coordinates", parseFloat(pair[1]),
                                  parseFloat(pair[2]), <<>>)
        IN  /\ locationData # NotRendered => locationData = asWritten
            /\ mapTarget # NoTarget => mapTarget = asWritten

(***************************************************************************)
(* C19.  A run is truncated exactly when its character counter (stdout and *)
(* stderr together) has passed the cap: a counter equal to the cap is no   *)
(* truncation.  The notice "Output truncated" is in the output block once  *)
(* if the counter is above the cap and not at all otherwise, the chunk     *)
(* that passed the cap sent SIGTERM, and the run is reported stopped       *)
(* unless its timer fired.                                                 *)
(* Fails: when the kill of the truncating handler makes the child emit     *)
(* 'error', the run is reported failed (the catch block does not test      *)
(* wasStopped, as in C5).                                                  *)
(***************************************************************************)
NoticeCount(r) ==
    Cardinality({i \in 1..Len(outputDiv[r]) :
                    outputDiv[r][i].text = "Output truncated (too large)"})

Truncated(r) == outputChars[r] > maxOutputChars

\* the step that led here was the chunk that passed the cap of run r
JustTruncated(r) ==
    /\ lastEvent.op \in {"output-stdout", "output-stderr"}
    /\ lastEvent.run = r
    /\ lastEvent.arg \notin {"dropped", "appended"}

C19_TruncationAtCap ==
    \A r \in Runs :
        /\ NoticeCount(r) = IF Truncated(r) THEN 1 ELSE 0
        /\ JustTruncated(r) => (Truncated(r) /\ lastEvent.arg \in KillResults)
        /\ (Reported(r) /\ Truncated(r) /\ timer[r] # "fired")
             => TerminalText(r) = "Execution stopped by user"

(***************************************************************************)
(* C20.  The markers are set when SIGTERM is sent, the report comes later. *)
(* Right after a timer callback, a stop or a truncating chunk has sent     *)
(* the signal without the child emitting 'error', timedOut (timer) or      *)
(* wasStopped (stop, truncation) is set, and the current run is still in   *)
(* progress: isRunning holds, its output block has no terminal message,    *)
(* and every submit is rejected by the guard.  That lasts as long as the   *)
(* run awaits its process; a run is reported with its process still alive  *)
(* only when the child's 'error' event ended it.                           *)
(***************************************************************************)
\* the step that led here sent SIGTERM and the child emitted no 'error'
JustSignalled ==
    /\ lastEvent.op \in {"killTimer", "stopScript", "output-stdout", "output-stderr"}
    /\ lastEvent.arg \in {"terminates", "ignored"}
    /\ lastEvent.run # 0    \* a stopScript that passed its guard

InProgress(r) ==
    /\ run[r].pc = "await"
    /\ isRunning
    /\ currentProcess = r
    /\ TerminalCount(r) = 0
    /\ \A input \in ScriptInputs : RunScriptGuard(Trim(input))

C20_MarkersEagerReportLate ==
    /\ JustSignalled
         => /\ currentProcess # 0
            /\ InProgress(currentProcess)
            /\ proc[currentProcess] = "alive"
            /\ IF lastEvent.op = "killTimer" THEN timedOut ELSE wasStopped
    /\ \A r \in Runs :
        /\ run[r].pc = "await" => InProgress(r) /\ proc[r] = "alive"
        /\ (Reported(r) /\ proc[r] = "alive") => EndedByError(r)

\* a submit was rejected after the timer callback and a stop had signalled
\* the process and before the process closed
C20_Witness ==
    /\ lastEvent.op = "runScript"
    /\ lastEvent.arg = "rejected"
    /\ lastEvent.script # <<>>
    /\ timedOut /\ wasStopped
    /\ currentProcess # 0
    /\ InProgress(currentProcess)
    /\ timer[currentProcess] = "fired"
    /\ stopRequested[currentProcess].requested
    /\ termPending[currentProcess]

(***************************************************************************)
(* C21.  this.currentProcess and this.isRunning are written by runScript   *)
(* only: set when the child is spawned, reset in the finally block after   *)
(* 'close' or 'error' ended the run.  stopScript, the timer callback and   *)
(* the 'data' handlers do not write them: a step of theirs changes them    *)
(* only if the child's 'error' event ended the run in it.  A non-null      *)
(* handle or an armed timeout implies isRunning.                           *)
(***************************************************************************)
HandlerOps == {"stopScript", "killTimer", "output-stdout", "output-stderr"}

C21_HandleWriters ==
    /\ []((currentProcess # 0 \/ ArmedTimers # {}) => isRunning)
    /\ [][ /\ (lastEvent'.op \in HandlerOps /\ lastEvent'.arg # "error")
                => UNCHANGED << currentProcess, isRunning >>
           /\ (currentProcess' # currentProcess \/ isRunning' # isRunning)
                => \/ /\ lastEvent'.op = "runScript"
                      /\ lastEvent'.arg = "spawned"
                      /\ currentProcess = 0 /\ ~isRunning
                      /\ currentProcess' = lastEvent'.run /\ isRunning'
                   \/ /\ lastEvent'.op \in HandlerOps \cup {"close"}
                      /\ lastEvent'.arg \in ExitCodes \cup {"error"}
                      /\ currentProcess # 0
                      /\ run[currentProcess].pc = "await"
                      /\ run'[currentProcess].pc = "done"
                      /\ currentProcess' = 0 /\ ~isRunning'
         ]_vars

\* the timer callback and a stop have signalled the current process and a
\* chunk has been dropped since; the handle is still the one set at spawn
C21_Witness ==
    /\ lastEvent.op \in {"output-stdout", "output-stderr"}
    /\ lastEvent.arg = "dropped"
    /\ currentProcess # 0
    /\ currentProcess = lastEvent.run
    /\ isRunning
    /\ timer[currentProcess] = "fired"
    /\ stopRequested[currentProcess].requested

(***************************************************************************)
(* C22.  The output block of a run holds a prefix of the chunks its        *)
(* process delivered, in arrival order: none is skipped before one that is *)
(* logged, none is reordered.  The lines of one chunk carry one stream     *)
(* tag, the tag of the stream whose handler appended them.                 *)
(* Fails: a child that outlived its run (C1) has a chunk dropped while     *)
(* wasStopped or timedOut is set, the next submit resets the flags, and    *)
(* the child's next chunk is appended: the block holds a later chunk       *)
(* without the one before it.                                              *)
(***************************************************************************)
\* the lines of 'data' event k in a block
LinesOfChunk(div, k) == SelectSeq(div, LAMBDA l : l.text = "data" /\ l.chunk = k)

C22_LogIsPrefixOfArrivals ==
    /\ \A r \in Runs :
        /\ IsPrefix(LoggedChunks(outputDiv[r]), arrived[r])
        /\ \A k \in 1..nChunks :
             \A i, j \in 1..Len(LinesOfChunk(outputDiv[r], k)) :
                LinesOfChunk(outputDiv[r], k)[i].cls = LinesOfChunk(outputDiv[r], k)[j].cls
    /\ (lastEvent.op \in {"output-stdout", "output-stderr"} /\ lastEvent.arg # "dropped")
         => LET new == LinesOfChunk(outputDiv[lastEvent.run], nChunks)
            IN  /\ new # <<>>
                /\ \A i \in 1..Len(new) : new[i].cls = lastEvent.op

(***************************************************************************)
(* C23.  The guard on isRunning comes before the sudo test: a command line *)
(* with the token sudo submitted while a run is in progress is rejected    *)
(* like any other: no blocked run is recorded, the history and the output  *)
(* keep their contents.                                                    *)
(***************************************************************************)
C23_GuardBeforeSudoTest ==
    [][ (IsRunScriptStep /\ isRunning /\ HasSudoToken(lastEvent'.script))
        => /\ lastEvent'.arg = "rejected"
           /\ UNCHANGED << commandHistory, scriptOutput, outputDiv, run, nRuns,
                           isRunning, currentProcess >>
           /\ \A r \in Runs : run'[r].pc # "blocked" \/ run[r].pc = "blocked"
      ]_vars

C23_Witness ==
    /\ isRunning
    /\ lastEvent.op = "runScript"
    /\ lastEvent.arg = "rejected"
    /\ HasSudoToken(lastEvent.script)
    /\ \A r \in Runs : run[r].pc # "blocked"
    /\ commandHistory = <<>>

(***************************************************************************)
(* C24.  The history gains exactly one entry for each submit that passed   *)
(* the guard: in the step that blocks the run, or in the step that reports *)
(* it (whatever the outcome), with the command and the output block of     *)
(* that run, appended at the end, so the entries are in the order in which *)
(* the runs ended.  No other step adds an entry: a rejected submit does    *)
(* not, and only clearOutput removes entries.                              *)
(***************************************************************************)
Ended(r) == run[r].pc \in {"blocked", "done"}

C24_OneHistoryEntryPerRun ==
    [][ (run' # run \/ commandHistory' # commandHistory)
        => LET ending == {r \in Runs : ~Ended(r) /\ Ended(r)'}
           IN  /\ Cardinality(ending) <= 1
               /\ ending = {}
                    => \/ commandHistory' = commandHistory
                       \/ lastEvent'.op = "clearOutput" /\ commandHistory' = <<>>
               /\ \A r \in ending :
                    /\ Len(commandHistory') = Len(commandHistory) + 1
                    /\ SubSeq(commandHistory', 1, Len(commandHistory)) = commandHistory
                    /\ commandHistory'[Len(commandHistory')].command = run'[r].script
                    /\ commandHistory'[Len(commandHistory')].output = outputDiv'[r]
      ]_vars

\* a run that failed and then a blocked one: two entries, in that order
C24_Witness ==
    /\ Len(commandHistory) = 2
    /\ run[1].pc = "done" /\ EndedByError(1) /\ proc[1] # "none"
    /\ run[2].pc = "blocked"
    /\ commandHistory[1].output = outputDiv[1]
    /\ commandHistory[2].output = outputDiv[2]
    /\ commandHistory[2].duration = "0.00"
    /\ lastEvent.arg = "rejected"

(***************************************************************************)
(* C25.  The markers do not leak between runs.  Right after a spawn both   *)
(* wasStopped and timedOut are false, and the outcome that 'close'         *)
(* reports for a run follows from the events of that run alone (its timer  *)
(* fired, a stop was requested for it or its counter passed the cap, the   *)
(* exit code), whatever happened in the runs before it.                    *)
(* Fails: a run that 'error' ended with its child alive (C1, C27) leaks    *)
(* into the next run: a chunk of that child that passes the cap sets       *)
(* wasStopped, and the next run is reported stopped without a stop,        *)
(* truncation or timeout of its own.                                       *)
(***************************************************************************)
JustSpawned ==
    /\ lastEvent.op = "runScript"
    /\ lastEvent.arg = "spawned"

C25_OutcomeFromOwnEvents ==
    /\ JustSpawned => (~wasStopped /\ ~timedOut /\ outputChars[lastEvent.run] = 0)
    /\ \A r \in Runs : \A code \in ExitCodes :
        ClosedWith(r, code)
            => TerminalText(r) =
                 OutcomeByPrecedence(timer[r] = "fired",
                                     stopRequested[r].requested \/ Truncated(r),
                                     code)

(***************************************************************************)
(* C26.  stopScript while no run is in progress (before any run, after a   *)
(* blocked submit, after a report) does nothing: no signal is sent, no     *)
(* flag is set, nothing of the executor changes, so a later run cannot be  *)
(* reported stopped because of it.                                         *)
(***************************************************************************)
C26_IdleStopIsNoOp ==
    [][ (lastEvent'.op = "stopScript" /\ ~isRunning)
        => /\ lastEvent'.arg = "ignored"
           /\ UNCHANGED << isRunning, currentProcess, killTimer, wasStopped,
                           timedOut, commandHistory, scriptOutput, outputDiv,
                           outputChars, run, proc, termPending, timer, nRuns,
                           nChunks, arrived, stopRequested >>
      ]_vars

\* a stop ignored after one run was reported and another was blocked
C26_Witness ==
    /\ ~isRunning
    /\ lastEvent.op = "stopScript"
    /\ lastEvent.arg = "ignored"
    /\ ~wasStopped
    /\ \E p, q \in Runs :
        /\ Reported(p) /\ TerminalText(p) = "Completed successfully"
        /\ run[q].pc = "blocked"

(***************************************************************************)
(* C27.  A chunk delivered by the child of a run that has already ended    *)
(* (through 'error', the child alive) while a later run is in progress     *)
(* does not touch the later run: the stopped flag keeps its value, kill    *)
(* is not called on the later run's process, and no block of another run   *)
(* grows.                                                                  *)
(***************************************************************************)
C27_StaleChunksAreInert ==
    [][ ( /\ lastEvent'.op \in {"output-stdout", "output-stderr"}
          /\ run[lastEvent'.run].pc = "done"
          /\ currentProcess # 0
          /\ currentProcess # lastEvent'.run )
        => /\ wasStopped' = wasStopped
           /\ lastEvent'.arg \notin KillResults
           /\ termPending' = termPending
           /\ \A q \in Runs \ {lastEvent'.run} : outputDiv'[q] = outputDiv[q]
      ]_vars

(***************************************************************************)
(* C28.  clearOutput during a run empties the history and replaces the     *)
(* visible log by the placeholder and changes nothing else: isRunning, the *)
(* process handle, the timer and the two flags keep their values.  The run *)
(* then ends as any other: the step that ends a run whose history was      *)
(* emptied writes one terminal line and leaves a history of exactly that   *)
(* run's entry.                                                            *)
(***************************************************************************)
C28_ClearDuringRun ==
    [][ /\ (lastEvent'.op = "clearOutput" /\ isRunning)
            => /\ commandHistory' = <<>>
               /\ scriptOutput' = <<Placeholder>>
               /\ UNCHANGED << isRunning, currentProcess, killTimer, wasStopped,
                               timedOut, outputDiv, outputChars, run, proc,
                               termPending, timer, stopRequested >>
        /\ \A r \in Runs :
            (run[r].pc = "await" /\ run'[r].pc = "done" /\ commandHistory = <<>>)
                => /\ Len(commandHistory') = 1
                   /\ commandHistory'[1].command = run[r].script
                   /\ commandHistory'[1].output = outputDiv'[r]
                   /\ TerminalCount(r)' = 1
                   /\ ~isRunning' /\ currentProcess' = 0
      ]_vars

\* the log was cleared while run 2 was running (its block is gone from the
\* log, the entry of run 1 from the history) and run 2 then completed
C28_Witness ==
    /\ Ended(1)
    /\ Reported(2)
    /\ TerminalText(2) = "Completed successfully"
    /\ scriptOutput = <<Placeholder>>
    /\ Len(commandHistory) = 1
    /\ commandHistory[1].output = outputDiv[2]
    /\ lastEvent.op = "close"

(***************************************************************************)
(* C29.  Session tabs.  Once a session exists the map never becomes empty: *)
(* closeSessionTab on the only session is refused and changes nothing.     *)
(* As long as the tab handlers have been called with ids that are keys of  *)
(* the map, currentSessionId is a key of the map.                          *)
(***************************************************************************)
C29_SessionsNeverEmpty ==
    /\ []((sessions # <<>> /\ ~staleCall) => currentSessionId \in Keys(sessions))
    /\ [][ /\ sessions # <<>> => sessions' # <<>>
           /\ (sessionEvent'.op = "closeSessionTab" /\ Len(sessions) = 1)
                => /\ sessionEvent'.refused
                   /\ UNCHANGED << sessions, tabs, currentSessionId >>
         ]_vars

\* a session was closed, and closing the one that is left has been refused
C29_Witness ==
    /\ sessionEvent.op = "closeSessionTab"
    /\ sessionEvent.refused
    /\ ~staleCall
    /\ Len(sessions) = 1
    /\ Len(tabs) = 1
    /\ nextSessionNumber > 2
    /\ currentSessionId = sessions[1].id
    /\ currentSessionId = sessionEvent.id

(***************************************************************************)
(* C30.  Ollama service control.  At most one child spawned by the         *)
(* application is alive at a time; startOllama changes nothing while the   *)
(* handle is held; the handle is cleared only by the 'close' or 'error' of *)
(* the child it refers to; stopOllama leaves the handle as it is.          *)
(* Fails: a child that could not be run emits 'error' and later 'close'.   *)
(* After the 'error' the handle is null and Start is enabled; the 'close'  *)
(* of that child then clears the handle of the child started since, which  *)
(* is alive, and a further Start spawns a second one.                      *)
(***************************************************************************)
AliveChildren == {p \in Children : child[p] = "alive"}

C30_OneOllamaServer ==
    /\ [](Cardinality(AliveChildren) <= 1)
    /\ [][ /\ (ollamaEvent'.op = "startOllama" /\ ollamaProcess # 0)
                => UNCHANGED << ollamaProcess, child, nOllama >>
           /\ (ollamaProcess # 0 /\ ollamaProcess' = 0)
                => /\ ollamaEvent'.op = "close"
                   /\ ollamaEvent'.child = ollamaProcess
           /\ ollamaEvent'.op = "stopOllama" => UNCHANGED ollamaProcess
         ]_vars

=============================================================================
